---- MODULE Spec2Model ----
(***************************************************************************)
(* ATS scorer of the resume-tailoring backend                              *)
(* (backend/app/services/ats_scorer.py with backend/app/utils/             *)
(* synonym_map.py and backend/app/services/embedding_service.py).          *)
(*                                                                         *)
(* Python strings are sequences of one-character strings, so that lower(), *)
(* strip(), the substring test, re.split and the \b regex are computed and *)
(* not assumed.  Python floats are exact rationals <<n, d>> (d > 0, lowest *)
(* terms); round(x, 1) is computed on the rational and kept in tenths.     *)
(***************************************************************************)
EXTENDS Integers, Sequences, FiniteSets, TLC

VARIABLES
    synonym_file,          \* Some(entries of data/skill_synonyms.json), None if unreadable
    canonical_to_aliases,  \* module global of synonym_map.py, None until built
    alias_to_canonical,    \* module global of synonym_map.py, None until built
    jd,                    \* the ParsedJD handed to the scorer
    resumes,               \* the list of ParsedResume handed to the scorer
    oracle,                \* what semantic_similarity answers at each call site
    current_year,          \* datetime.now().year
    factors,               \* the six unrounded percentages of that score_resume call
    report,                \* result of score_resume(jd, resumes[1]), None before
    scores,                \* the list rank_resumes scored, before it is sorted
    ranking,               \* result of rank_resumes(jd, resumes), None before
    raised,                \* the exception that escaped a call, None if none did
    current_month,         \* date.today().month
    estimate,              \* Some(result of _estimate_years(resumes[1])), None before
    experience_years,      \* Some(result of _calculate_experience_years(resumes[1]))
    years_pct,             \* Some(result of _years_fit(...)), None before
    education_pct,         \* Some(result of _education_match(...)), None before
    target_skill,          \* the skill handed to normalize_skill / find_matching_skill
    candidate_list,        \* the candidate list handed to find_matching_skill
    normalized,            \* Some(result of normalize_skill(target)), None before
    found,                 \* Some(result of find_matching_skill(...)), None before
    threads,               \* per thread: where its score_resume call stands
    loads,                 \* how many times _load has run
    jd_data,               \* the "jd_type" value of the dict handed to _build_parsed_jd
    resume_cache,          \* module global _resume_cache of resume_service.py
    parse_calls            \* per parse_resume call: where it stands, what it returned

\* what the sequential scorer reads and writes
scorer_vars == <<synonym_file, canonical_to_aliases, alias_to_canonical, jd, resumes,
                 oracle, current_year, factors, report, scores, ranking, raised>>

\* what only the calls of a single helper or of concurrent callers use
helper_vars == <<current_month, estimate, experience_years, years_pct,
                 education_pct, target_skill, candidate_list, normalized, found>>

thread_vars == <<threads, loads>>

\* what the services around the scorer read and write
store_vars == <<jd_data, resume_cache, parse_calls>>

vars == <<scorer_vars, helper_vars, thread_vars, store_vars>>

None == <<>>

----------------------------------------------------------------------------
(* str primitives *)

\* the ASCII case mapping of str.lower()
ToLower ==
    [A |-> "a", B |-> "b", C |-> "c", D |-> "d", E |-> "e", F |-> "f",
     G |-> "g", H |-> "h", I |-> "i", J |-> "j", K |-> "k", L |-> "l",
     M |-> "m", N |-> "n", O |-> "o", P |-> "p", Q |-> "q", R |-> "r",
     S |-> "s", T |-> "t", U |-> "u", V |-> "v", W |-> "w", X |-> "x",
     Y |-> "y", Z |-> "z"]

UpperChars == DOMAIN ToLower
LowerChars == { ToLower[c] : c \in UpperChars }
DigitValues ==
    [c \in {"0", "1", "2", "3", "4", "5", "6", "7", "8", "9"} |->
        CASE c = "0" -> 0 [] c = "1" -> 1 [] c = "2" -> 2 [] c = "3" -> 3
          [] c = "4" -> 4 [] c = "5" -> 5 [] c = "6" -> 6 [] c = "7" -> 7
          [] c = "8" -> 8 [] c = "9" -> 9]
DigitChars == DOMAIN DigitValues

LowerChar(c) == IF c \in UpperChars THEN ToLower[c] ELSE c

\* a sequence given as a function, as a tuple
AsTuple(f) == <<>> \o f

\* str.lower()
Lower(s) == AsTuple([i \in 1..Len(s) |-> LowerChar(s[i])])

IsSpace(c) == c \in {" ", "\t", "\n"}

RECURSIVE LStrip(_)
LStrip(s) == IF s # <<>> /\ IsSpace(Head(s)) THEN LStrip(Tail(s)) ELSE s

RECURSIVE RStrip(_)
RStrip(s) == IF s # <<>> /\ IsSpace(s[Len(s)])
             THEN RStrip(SubSeq(s, 1, Len(s) - 1))
             ELSE s

\* str.strip()
Strip(s) == RStrip(LStrip(s))

\* sub at offset i of text (0-based offset)
MatchAt(sub, text, i) ==
    /\ i + Len(sub) <= Len(text)
    /\ \A k \in 1..Len(sub) : text[i + k] = sub[k]

\* Python's `sub in text`
Contains(sub, text) == \E i \in 0..Len(text) : MatchAt(sub, text, i)

Range(seq) == { seq[i] : i \in 1..Len(seq) }

\* " ".join(parts)
RECURSIVE Join(_)
Join(parts) == IF parts = <<>> THEN <<>>
               ELSE IF Len(parts) = 1 THEN parts[1]
               ELSE parts[1] \o <<" ">> \o Join(Tail(parts))

\* regex \w
IsWordChar(c) == c \in UpperChars \cup LowerChars \cup DigitChars \cup {"_"}

\* regex \b between offsets p-1 and p of text (p in 0..Len(text))
WordBoundary(text, p) ==
    LET before == p >= 1 /\ p <= Len(text) /\ IsWordChar(text[p])
        after  == p + 1 <= Len(text) /\ IsWordChar(text[p + 1])
    IN  before # after

\* re.search(r"\b" + re.escape(sub) + r"\b", text)
SearchWholeWord(sub, text) ==
    \E i \in 0..Len(text) :
        /\ MatchAt(sub, text, i)
        /\ WordBoundary(text, i)
        /\ WordBoundary(text, i + Len(sub))

----------------------------------------------------------------------------
(* Optional[T]: None is the empty sequence, a value x is <<x>> *)

Some(x) == <<x>>

\* the element of a one-element set; Only({ F(v) : v \in {e} }) is F(e) with e
\* evaluated once
Only(S) == CHOOSE x \in S : TRUE
IsNone(o) == o = <<>>
\* Python truthiness of an Optional[str]: neither None nor ""
TruthyStr(o) == o # <<>> /\ o[1] # <<>>

----------------------------------------------------------------------------
(* floats as exact rationals *)

RECURSIVE Gcd(_, _)
Gcd(a, b) == IF b = 0 THEN a ELSE Gcd(b, a % b)

Abs(x) == IF x < 0 THEN -x ELSE x

Rat(n, d) == LET g == Gcd(Abs(n), d) IN <<n \div g, d \div g>>
RInt(n) == <<n, 1>>
RAdd(p, q) == Rat(p[1] * q[2] + q[1] * p[2], p[2] * q[2])
RMul(p, q) == Rat(p[1] * q[1], p[2] * q[2])
RLe(p, q) == p[1] * q[2] <= q[1] * p[2]
RLt(p, q) == p[1] * q[2] < q[1] * p[2]
RMax(p, q) == IF RLt(p, q) THEN q ELSE p
RMin(p, q) == IF RLt(q, p) THEN q ELSE p

\* round(x, 1) of a non-negative x, in tenths (round-half-even on the exact
\* value: 6.25 -> 62, 8.75 -> 88)
Round1(q) ==
    LET t == (10 * q[1]) \div q[2]
        r == 10 * q[1] - t * q[2]
    IN  IF 2 * r > q[2] THEN t + 1
        ELSE IF 2 * r < q[2] THEN t
        ELSE IF t % 2 = 0 THEN t ELSE t + 1

\* round(x, 1) of a sum of inexact float products (the weighted total): at an
\* exact decimal tie the float sum lies just below or just above it, and
\* either neighbour can come out
Round1Float(q) ==
    IF 2 * (10 * q[1] - ((10 * q[1]) \div q[2]) * q[2]) = q[2]
    THEN {(10 * q[1]) \div q[2], (10 * q[1]) \div q[2] + 1}
    ELSE {Round1(q)}

----------------------------------------------------------------------------
(* synonym_map.py *)

EmptyDict == <<>>

\* dict.get(k, default)
Get(dict, k, default) == IF k \in DOMAIN dict THEN dict[k] ELSE default

\* dict[k] = v
Put(dict, k, v) == (k :> v) @@ dict

\* the inner loop of _load: every alias of one entry points at its canonical
RECURSIVE LoadAliases(_, _, _)
LoadAliases(a2c, aliases, canonical_lower) ==
    IF aliases = <<>> THEN a2c
    ELSE LoadAliases(Put(a2c, Strip(Lower(Head(aliases))), canonical_lower),
                     Tail(aliases), canonical_lower)

\* the outer loop of _load over raw.items(); tables is [c2a, a2c]
RECURSIVE LoadEntries(_, _)
LoadEntries(tables, entries) ==
    IF entries = <<>> THEN tables
    ELSE IF Head(entries).canonical # <<>> /\ Head(Head(entries).canonical) = "_"
         THEN LoadEntries(tables, Tail(entries))
         ELSE LoadEntries(
                Only({ [c2a |-> Put(tables.c2a, canonical_lower,
                                    AsTuple([i \in 1..Len(e.aliases) |->
                                                Strip(Lower(e.aliases[i]))])),
                        a2c |-> LoadAliases(tables.a2c, e.aliases, canonical_lower)] :
                       e \in {Head(entries)},
                       canonical_lower \in {Strip(Lower(Head(entries).canonical))} }),
                Tail(entries))

\* _load: the two tables built from the synonym file; both stay empty when
\* the file cannot be read or parsed
Load(file) ==
    IF file = None
    THEN [c2a |-> EmptyDict, a2c |-> EmptyDict]
    ELSE LoadEntries([c2a |-> EmptyDict, a2c |-> EmptyDict], file[1])

\* _ensure_loaded: the tables after the call, built only when
\* _canonical_to_aliases is None
EnsureLoaded(c2a, a2c, file) ==
    IF IsNone(c2a)
    THEN Only({ [c2a |-> Some(built.c2a), a2c |-> Some(built.a2c)] :
                built \in {Load(file)} })
    ELSE [c2a |-> c2a, a2c |-> a2c]

\* mutant: the lookup key is lower-cased but not trimmed
normalize_skill_Untrimmed(a2c, skill) ==
    Only({ Get(a2c, lower, lower) : lower \in {Lower(skill)} })

\* normalize_skill, on the loaded alias table
normalize_skill(a2c, skill) ==
    Only({ Get(a2c, lower, lower) : lower \in {Strip(Lower(skill))} })

\* mutant: only the last candidate is compared with the target
find_matching_skill_LastOnly(a2c, target, candidate_skills) ==
    IF candidate_skills = <<>> THEN None
    ELSE IF normalize_skill(a2c, candidate_skills[Len(candidate_skills)])
              = normalize_skill(a2c, target)
         THEN Some(candidate_skills[Len(candidate_skills)])
         ELSE None

RECURSIVE find_matching_skill(_, _, _)
find_matching_skill(a2c, target, candidate_skills) ==
    IF candidate_skills = <<>> THEN None
    ELSE IF normalize_skill(a2c, Head(candidate_skills)) = normalize_skill(a2c, target)
         THEN Some(Head(candidate_skills))
         ELSE find_matching_skill(a2c, target, Tail(candidate_skills))

----------------------------------------------------------------------------
(* string literals of the source and of the inputs *)

S_present == <<"p", "r", "e", "s", "e", "n", "t">>
S_current == <<"c", "u", "r", "r", "e", "n", "t">>
S_Python == <<"P", "y", "t", "h", "o", "n">>
S_Kubernetes == <<"K", "u", "b", "e", "r", "n", "e", "t", "e", "s">>
S_Go == <<"G", "o">>
S_K8s == <<"K", "8", "s">>
S_golang == <<"g", "o", "l", "a", "n", "g">>
S_Docker == <<"D", "o", "c", "k", "e", "r">>
S_comment == <<"_", "c", "o", "m", "m", "e", "n", "t">>
S_kube == <<" ", "k", "u", "b", "e", " ">>
S_walk == <<"I", " ", "a", "m", " ", "g", "o", "i", "n", "g", " ", "f", "o", "r", " ", "a", " ", "w", "a", "l", "k">>
S_proficient == <<"p", "r", "o", "f", "i", "c", "i", "e", "n", "t", " ", "i", "n", " ", "G", "o", " ", "a", "n", "d", " ", "P", "y", "t", "h", "o", "n", ".">>
S_backend == <<"B", "a", "c", "k", "e", "n", "d", " ", "d", "e", "v", "e", "l", "o", "p", "e", "r">>
S_PythonEngineer == <<"P", "y", "t", "h", "o", "n", " ", "E", "n", "g", "i", "n", "e", "e", "r">>
S_SeniorEngineer == <<"S", "e", "n", "i", "o", "r", " ", "P", "y", "t", "h", "o", "n", " ", "E", "n", "g", "i", "n", "e", "e", "r">>
S_The == <<"T", "h", "e">>
S_Engineer == <<"E", "n", "g", "i", "n", "e", "e", "r">>
S_Acme == <<"A", "c", "m", "e">>
S_built == <<"B", "u", "i", "l", "t", " ", "p", "y", "t", "h", "o", "n", " ", "s", "e", "r", "v", "i", "c", "e", "s">>
S_deployed == <<"D", "e", "p", "l", "o", "y", "e", "d", " ", "o", "n", " ", "k", "u", "b", "e", "r", "n", "e", "t", "e", "s">>
S_JanMar == <<"J", "a", "n", " ", "2", "0", "2", "0", " ", "-", " ", "M", "a", "r", " ", "2", "0", "2", "2">>
S_Since2020 == <<"2", "0", "2", "0", " ", "-", " ", "P", "r", "e", "s", "e", "n", "t">>
S_Summer == <<"S", "u", "m", "m", "e", "r", " ", "i", "n", "t", "e", "r", "n", "s", "h", "i", "p">>
S_BS == <<"B", "S", " ", "P", "h", "y", "s", "i", "c", "s">>
S_PhD == <<"P", "h", "D">>
S_Master == <<"M", "a", "s", "t", "e", "r", " ", "d", "e", "g", "r", "e", "e">>
S_AnyDegree == <<"D", "e", "g", "r", "e", "e", " ", "p", "r", "e", "f", "e", "r", "r", "e", "d">>
S_MIT == <<"M", "I", "T">>
S_CKA == <<"C", "K", "A">>
S_Deploy == <<"D", "e", "p", "l", "o", "y", " ", "t", "o", "o", "l">>
S_apis == <<"B", "u", "i", "l", "d", " ", "p", "y", "t", "h", "o", "n", " ", "a", "p", "i", "s">>
S_kw_python == <<"p", "y", "t", "h", "o", "n">>
S_kw_services == <<"s", "e", "r", "v", "i", "c", "e", "s">>
MsgPrefix == <<"R", "e", "q", "u", "i", "r", "e", "d", " ", "s", "k", "i", "l", "l", " ", "'">>
MsgSuffix == <<"'", " ", "n", "o", "t", " ", "f", "o", "u", "n", "d", " ", "i", "n", " ", "r", "e", "s", "u", "m", "e">>

----------------------------------------------------------------------------
(* ats_scorer.py: scoring helpers *)

RECURSIVE Flatten(_)
Flatten(seqs) == IF seqs = <<>> THEN <<>> ELSE Head(seqs) \o Flatten(Tail(seqs))

\* text_parts of _skill_in_text
ExperienceParts(experience) ==
    Flatten(AsTuple([i \in 1..Len(experience) |->
        <<experience[i].title, experience[i].company>> \o experience[i].bullets]))

ProjectParts(projects) ==
    Flatten(AsTuple([i \in 1..Len(projects) |->
        <<projects[i].name>> \o projects[i].technologies \o projects[i].bullets]))

FullText(resume) ==
    Lower(Join(
        (IF TruthyStr(resume.summary) THEN <<resume.summary[1]>> ELSE <<>>)
        \o (IF TruthyStr(resume.tagline) THEN <<resume.tagline[1]>> ELSE <<>>)
        \o ExperienceParts(resume.experience)
        \o ProjectParts(resume.projects)
        \o resume.certifications))

skill_in_text(a2c, skill, resume) ==
    \E skill_lower \in {Lower(skill)}, norm \in {normalize_skill(a2c, skill)},
       full_text \in {FullText(resume)} :
        \/ Contains(skill_lower, full_text)
        \/ Contains(norm, full_text)
        \/ /\ Len(skill_lower) <= 3
           /\ SearchWholeWord(skill_lower, full_text)

\* mutant: the full-text fallback of the matching loops is left out
SkillMatched_ListOnly(a2c, skill, resume) ==
    TruthyStr(find_matching_skill(a2c, skill, resume.skills))

\* the per-skill decision of both matching loops of score_resume
SkillMatched(a2c, skill, resume) ==
    \/ TruthyStr(find_matching_skill(a2c, skill, resume.skills))
    \/ skill_in_text(a2c, skill, resume)

\* mutant: a selected skill is put in front of the list, not at its end
RECURSIVE SelectSkills_Prepend(_, _, _, _)
SelectSkills_Prepend(a2c, skills, resume, want) ==
    IF skills = <<>> THEN <<>>
    ELSE SelectSkills_Prepend(a2c, Tail(skills), resume, want)
         \o (IF SkillMatched(a2c, Head(skills), resume) = want
             THEN <<Head(skills)>> ELSE <<>>)

RECURSIVE SelectSkills(_, _, _, _)
SelectSkills(a2c, skills, resume, want) ==
    IF skills = <<>> THEN <<>>
    ELSE (IF SkillMatched(a2c, Head(skills), resume) = want
          THEN <<Head(skills)>> ELSE <<>>)
         \o SelectSkills(a2c, Tail(skills), resume, want)

Max2(a, b) == IF a < b THEN b ELSE a

\* mutant: the divisor is the bare length of the list
SkillsDivisor_NoMax(wanted) == Len(wanted)

\* max(len(wanted), 1)
SkillsDivisor(wanted) == Max2(Len(wanted), 1)

\* (len(matched) / max(len(wanted), 1)) * 100
SkillsPct(matched, wanted) == Rat(100 * Len(matched), SkillsDivisor(wanted))

TitleSeparators == {" ", "\t", "\n", "/", "|", ",", "-", "&"}

\* re.split(r"[\s/|,\-&]+", s) without the empty pieces
RECURSIVE SplitWords(_, _)
SplitWords(s, word) ==
    IF s = <<>> THEN (IF word = <<>> THEN <<>> ELSE <<word>>)
    ELSE IF Head(s) \in TitleSeparators
         THEN (IF word = <<>> THEN <<>> ELSE <<word>>) \o SplitWords(Tail(s), <<>>)
         ELSE SplitWords(Tail(s), Append(word, Head(s)))

StopWords ==
    { <<"a">>, <<"a","n">>, <<"t","h","e">>, <<"a","n","d">>, <<"o","r">>,
      <<"o","f">>, <<"i","n">>, <<"a","t">>, <<"f","o","r">>, <<"t","o">>,
      <<"w","i","t","h">>, <<"o","n">>, <<"b","y">>, <<"i","s">>,
      <<"a","r","e">>, <<"w","a","s">>, <<"w","e","r","e">>, <<"b","e">>,
      <<"b","e","e","n">>, <<"-">>, <<"/">>, <<"|">>, <<"&">>, <<",">>,
      <<".">>, <<"(">>, <<")">>, <<"i">>, <<"i","i">>, <<"i","i","i">>,
      <<"i","v">>, <<"v">> }

extract_title_words(a2c, title) ==
    { normalize_skill(a2c, word) :
        word \in { w \in { Strip(piece) : piece \in Range(SplitWords(Lower(title), <<>>)) } :
                     w # <<>> /\ w \notin StopWords /\ Len(w) > 1 } }

FirstTwo(seq) == SubSeq(seq, 1, IF Len(seq) < 2 THEN Len(seq) ELSE 2)

\* the keyword overlap score of _title_similarity
RECURSIVE TitleKeywordLoop(_, _, _, _)
TitleKeywordLoop(a2c, jd_words, exps, keyword_score) ==
    IF exps = <<>> THEN keyword_score
    ELSE TitleKeywordLoop(a2c, jd_words, Tail(exps),
            Only({ IF resume_words = {} THEN keyword_score
                   ELSE RMax(keyword_score,
                             Rat(100 * Cardinality(jd_words \cap resume_words),
                                 Cardinality(jd_words))) :
                   resume_words \in {extract_title_words(a2c, Head(exps).title)} }))

\* mutant: the tagline counts in full, like a title
TitleKeywordScore_TaglineFull(a2c, jd_words, resume) ==
    Only({ RMin(IF TruthyStr(resume.tagline)
                THEN Only({ RMax(from_titles,
                                 Rat(100 * Cardinality(jd_words \cap tagline_words),
                                     Max2(Cardinality(jd_words), 1))) :
                            tagline_words \in
                                {extract_title_words(a2c, resume.tagline[1])} })
                ELSE from_titles,
                RInt(100)) :
           from_titles \in {TitleKeywordLoop(a2c, jd_words,
                                             FirstTwo(resume.experience), RInt(0))} })

TitleKeywordScore(a2c, jd_words, resume) ==
    Only({ RMin(IF TruthyStr(resume.tagline)
                THEN Only({ RMax(from_titles,
                                 Rat(80 * Cardinality(jd_words \cap tagline_words),
                                     Max2(Cardinality(jd_words), 1))) :
                            tagline_words \in
                                {extract_title_words(a2c, resume.tagline[1])} })
                ELSE from_titles,
                RInt(100)) :
           from_titles \in {TitleKeywordLoop(a2c, jd_words,
                                             FirstTwo(resume.experience), RInt(0))} })

\* candidate_titles of _title_similarity
CandidateTitles(resume) ==
    Flatten(AsTuple([i \in 1..Len(FirstTwo(resume.experience)) |->
                IF resume.experience[i].title # <<>>
                THEN <<resume.experience[i].title>> ELSE <<>>]))
    \o (IF TruthyStr(resume.tagline) THEN <<resume.tagline[1]>> ELSE <<>>)

\* best_sim over the oracle's answers to the first n calls
RECURSIVE BestSim(_, _)
BestSim(sims, n) ==
    IF n = 0 THEN RInt(0)
    ELSE IF IsNone(sims[n]) THEN BestSim(sims, n - 1)
         ELSE RMax(BestSim(sims, n - 1), sims[n][1])

\* min(semantic_score * ws + keyword_score * wk, 100.0), semantic_score = sim * 100
Blend(sim, ws, keyword_score, wk) ==
    Only({ IF RLt(RInt(100), total) THEN RInt(100) ELSE total :
           total \in {Rat(100 * sim[1] * ws[1] * keyword_score[2] * wk[2]
                            + keyword_score[1] * wk[1] * sim[2] * ws[2],
                          sim[2] * ws[2] * keyword_score[2] * wk[2])} })

\* mutant: with no usable answer of the oracle the semantic score is taken
\* as 0 and blended in all the same
TitleScore_AlwaysBlend(a2c, jd_title, resume, orc) ==
    Only({
        IF jd_words = {} THEN RInt(50)
        ELSE Only({ Blend(best_sim, Rat(6, 10), keyword_score, Rat(4, 10)) :
                    keyword_score \in {TitleKeywordScore(a2c, jd_words, resume)},
                    best_sim \in {BestSim(orc.title, Len(CandidateTitles(resume)))} }) :
        jd_words \in {extract_title_words(a2c, jd_title)} })

\* _title_similarity after its early return for a resume without experience
TitleScore(a2c, jd_title, resume, orc) ==
    Only({
        IF jd_words = {} THEN RInt(50)
        ELSE Only({ IF RLt(RInt(0), best_sim)
                    THEN Blend(best_sim, Rat(6, 10), keyword_score, Rat(4, 10))
                    ELSE keyword_score :
                    keyword_score \in {TitleKeywordScore(a2c, jd_words, resume)},
                    best_sim \in {BestSim(orc.title, Len(CandidateTitles(resume)))} }) :
        jd_words \in {extract_title_words(a2c, jd_title)} })

title_similarity(a2c, jd_title, resume, orc) ==
    IF resume.experience = <<>> THEN RInt(20)
    ELSE TitleScore(a2c, jd_title, resume, orc)

\* mutant: the preferred skills are left out of the keyword set
JdKeywords_NoPreferred(job) ==
    { Lower(kw) : kw \in Range(job.keywords_to_match) \cup Range(job.required_skills) }

\* jd_keywords of _experience_relevance
JdKeywords(job) ==
    { Lower(kw) : kw \in Range(job.keywords_to_match) \cup Range(job.required_skills)
                          \cup Range(job.preferred_skills) }

\* exp_text of _experience_relevance
ExpText(resume) ==
    Join(Flatten(AsTuple([i \in 1..Len(resume.experience) |->
        <<Lower(resume.experience[i].title)>>
        \o [k \in 1..Len(resume.experience[i].bullets) |->
               Lower(resume.experience[i].bullets[k])]])))

\* jd_context of _experience_relevance
JdContext(job) ==
    IF job.key_responsibilities # <<>> /\ Join(job.key_responsibilities) # <<>>
    THEN Join(job.key_responsibilities)
    ELSE Join(job.keywords_to_match)

\* _experience_relevance after its early return for a resume without experience
ExperienceScore(job, resume, orc) ==
    Only({
        IF jd_keywords = {} THEN RInt(50)
        ELSE Only({
            IF JdContext(job) # <<>> /\ exp_text # <<>> /\ ~IsNone(orc.experience)
            THEN Blend(orc.experience[1], Rat(5, 10), keyword_score, Rat(5, 10))
            ELSE keyword_score :
            keyword_score \in
                { RMin(Rat(100 * hits, Cardinality(jd_keywords)), RInt(100)) :
                  hits \in { Cardinality({ kw \in jd_keywords :
                                              Contains(kw, exp_text) }) } } }) :
        jd_keywords \in {JdKeywords(job)}, exp_text \in {ExpText(resume)} })

\* mutant: the early return for a resume without experience is left out
experience_relevance_Unguarded(job, resume, orc) ==
    ExperienceScore(job, resume, orc)

experience_relevance(job, resume, orc) ==
    IF resume.experience = <<>> THEN RInt(0)
    ELSE ExperienceScore(job, resume, orc)

IsDigit(c) == c \in DigitChars
DigitValue(c) == DigitValues[c]

\* whether 20\d{2}|19\d{2} matches at offset i
YearAt(s, i) ==
    /\ i + 4 <= Len(s)
    /\ \/ (s[i + 1] = "2" /\ s[i + 2] = "0")
       \/ (s[i + 1] = "1" /\ s[i + 2] = "9")
    /\ IsDigit(s[i + 3])
    /\ IsDigit(s[i + 4])

\* int() of the four digits at offset i
YearValue(s, i) ==
    1000 * DigitValue(s[i + 1]) + 100 * DigitValue(s[i + 2])
    + 10 * DigitValue(s[i + 3]) + DigitValue(s[i + 4])

\* re.findall(r"20\d{2}|19\d{2}", s), as integers, scanning from offset i
RECURSIVE FindYears(_, _)
FindYears(s, i) ==
    IF i + 4 > Len(s) THEN <<>>
    ELSE IF YearAt(s, i) THEN <<YearValue(s, i)>> \o FindYears(s, i + 4)
         ELSE FindYears(s, i + 1)

\* max(0.5, n) of an integer n
HalfOrMore(n) == IF n >= 1 THEN RInt(n) ELSE Rat(1, 2)

\* _parse_date_range_years: None or Some(years)
parse_date_range_years(dates, now_year) ==
    IF dates = <<>> THEN None
    ELSE Only({
             IF Len(years) >= 2
             THEN Some(HalfOrMore(years[Len(years)] - years[1]))
             ELSE IF /\ \/ Contains(S_present, dates_lower)
                        \/ Contains(S_current, dates_lower)
                     /\ Len(years) >= 1
             THEN Some(HalfOrMore(now_year - years[1]))
             ELSE IF Len(years) = 1 THEN Some(RInt(1))
             ELSE None :
             dates_lower \in {Lower(dates)}, years \in {FindYears(dates, 0)} })

\* mutant: an entry whose dates do not parse is counted as one year
RECURSIVE TotalYears_UnparsedAsOne(_, _)
TotalYears_UnparsedAsOne(experience, now_year) ==
    IF experience = <<>> THEN RInt(0)
    ELSE Only({ RAdd(IF IsNone(years) THEN RInt(1) ELSE years[1], rest) :
                years \in {parse_date_range_years(Head(experience).dates, now_year)},
                rest \in {TotalYears_UnparsedAsOne(Tail(experience), now_year)} })

RECURSIVE TotalYears(_, _)
TotalYears(experience, now_year) ==
    IF experience = <<>> THEN RInt(0)
    ELSE Only({ IF ~IsNone(years) /\ years[1] # RInt(0)
                THEN RAdd(years[1], rest)
                ELSE rest :
                years \in {parse_date_range_years(Head(experience).dates, now_year)},
                rest \in {TotalYears(Tail(experience), now_year)} })

\* _estimate_years: None or Some(total)
estimate_years(resume, now_year) ==
    IF resume.experience = <<>> THEN None
    ELSE Only({ IF RLt(RInt(0), total_years) THEN Some(total_years) ELSE None :
                total_years \in {TotalYears(resume.experience, now_year)} })

\* mutant: below 70% of the requirement the ratio is scaled by 120
YearsScoreOf_Steep(req, estimated_years) ==
    IF IsNone(estimated_years) THEN RInt(50)
    ELSE IF RLe(RInt(req), estimated_years[1]) THEN RInt(100)
    ELSE IF RLe(Rat(7 * req, 10), estimated_years[1])
         THEN Rat(100 * estimated_years[1][1], estimated_years[1][2] * req)
    ELSE IF 120 * estimated_years[1][1] >= 10 * estimated_years[1][2] * req
         THEN Rat(120 * estimated_years[1][1], estimated_years[1][2] * req)
    ELSE RInt(10)

\* _years_fit from the estimate on: estimated_years is None or Some(years)
YearsScoreOf(req, estimated_years) ==
    IF IsNone(estimated_years) THEN RInt(50)
    ELSE IF RLe(RInt(req), estimated_years[1]) THEN RInt(100)
    ELSE IF RLe(Rat(7 * req, 10), estimated_years[1])
         THEN Rat(100 * estimated_years[1][1], estimated_years[1][2] * req)
    ELSE IF 80 * estimated_years[1][1] >= 10 * estimated_years[1][2] * req
         THEN Rat(80 * estimated_years[1][1], estimated_years[1][2] * req)
    ELSE RInt(10)

\* mutant: below 70% of the requirement the ratio is scaled by 80 with no floor
YearsScore_NoFloor(req, resume, now_year) ==
    Only({
        IF IsNone(estimated_years) THEN RInt(50)
        ELSE IF RLe(RInt(req), estimated_years[1]) THEN RInt(100)
        ELSE IF RLe(Rat(7 * req, 10), estimated_years[1])
             THEN Rat(100 * estimated_years[1][1], estimated_years[1][2] * req)
        ELSE Rat(80 * estimated_years[1][1], estimated_years[1][2] * req) :
        estimated_years \in {estimate_years(resume, now_year)} })

\* _years_fit for a job that states req years
YearsScore(req, resume, now_year) ==
    Only({ YearsScoreOf(req, estimated_years) :
           estimated_years \in {estimate_years(resume, now_year)} })

\* mutant: a job without a stated minimum is scored as one that asks for 0 years
years_fit_NoneAsZero(required_years, resume, now_year) ==
    YearsScore(IF IsNone(required_years) THEN 0 ELSE required_years[1],
               resume, now_year)

years_fit(required_years, resume, now_year) ==
    IF IsNone(required_years) THEN RInt(70)
    ELSE YearsScore(required_years[1], resume, now_year)

----------------------------------------------------------------------------
(* tailor_service.py: the month-based duration of the experience entries *)

\* the characters U+2013 and U+2014, each one element of a string
EnDash == "EN DASH"
EmDash == "EM DASH"

S_MarJan == <<"M", "a", "r", " ", "2", "0", "2", "2", " ", "-", " ", "J", "a", "n", " ", "2", "0", "2", "0">>
S_JunDec == <<"J", "u", "n", "e", " ", "2", "0", "1", "9", " ", "t", "o", " ", "D", "e", "c", " ", "2", "0", "1", "9">>
S_In2021 == <<"2", "0", "2", "1", " ", EnDash, " ", "2", "0", "2", "1">>
S_In2022 == <<"2", "0", "2", "2">>
S_to == <<"t", "o">>

\* _MONTH_MAP, key and month
MONTH_MAP ==
    << <<<<"j", "a", "n">>, 1>>, <<<<"f", "e", "b">>, 2>>,
       <<<<"m", "a", "r">>, 3>>, <<<<"a", "p", "r">>, 4>>,
       <<<<"m", "a", "y">>, 5>>, <<<<"j", "u", "n">>, 6>>,
       <<<<"j", "u", "l">>, 7>>, <<<<"a", "u", "g">>, 8>>,
       <<<<"s", "e", "p">>, 9>>, <<<<"o", "c", "t">>, 10>>,
       <<<<"n", "o", "v">>, 11>>, <<<<"d", "e", "c">>, 12>>,
       <<<<"s", "p", "r", "i", "n", "g">>, 3>>, <<<<"s", "u", "m", "m", "e", "r">>, 6>>,
       <<<<"f", "a", "l", "l">>, 9>>, <<<<"a", "u", "t", "u", "m", "n">>, 9>>,
       <<<<"w", "i", "n", "t", "e", "r">>, 12>> >>

\* _MONTH_MAP.get(key)
MonthGet(key) ==
    IF \E i \in 1..Len(MONTH_MAP) : MONTH_MAP[i][1] = key
    THEN Some(MONTH_MAP[CHOOSE i \in 1..Len(MONTH_MAP) : MONTH_MAP[i][1] = key][2])
    ELSE None

\* the tokens that _parse_month_year resolves to date.today()
TodayWords ==
    { <<"p", "r", "e", "s", "e", "n", "t">>, <<"c", "u", "r", "r", "e", "n", "t">>,
      <<"n", "o", "w">>, <<"o", "n", "g", "o", "i", "n", "g">>,
      <<"t", "o", "d", "a", "y">> }

\* how many characters from offset i on are [a-z]
RECURSIVE SpanLetters(_, _)
SpanLetters(s, i) ==
    IF i < Len(s) /\ s[i + 1] \in LowerChars THEN 1 + SpanLetters(s, i + 1) ELSE 0

\* how many characters from offset i on are \s
RECURSIVE SpanSpaces(_, _)
SpanSpaces(s, i) ==
    IF i < Len(s) /\ IsSpace(s[i + 1]) THEN 1 + SpanSpaces(s, i + 1) ELSE 0

\* whether \d{4} matches at offset i
FourDigitsAt(s, i) ==
    i + 4 <= Len(s) /\ \A k \in 1..4 : IsDigit(s[i + k])

\* _parse_month_year: None or Some(<<year, month>>); today is <<year, month>>
parse_month_year(token_arg, today) ==
    Only({
        IF token \in TodayWords THEN Some(today)
        ELSE Only({
            IF /\ letters >= 1 /\ spaces >= 1
               /\ FourDigitsAt(token, letters + spaces)
               /\ ~IsNone(MonthGet(SubSeq(token, 1, IF letters < 3 THEN letters ELSE 3)))
            THEN Some(<<YearValue(token, letters + spaces),
                        MonthGet(SubSeq(token, 1,
                                        IF letters < 3 THEN letters ELSE 3))[1]>>)
            ELSE IF Len(token) = 4 /\ FourDigitsAt(token, 0)
                 THEN Some(<<YearValue(token, 0), 1>>)
                 ELSE None :
            letters \in {SpanLetters(token, 0)},
            spaces \in {SpanSpaces(token, SpanLetters(token, 0))} }) :
        token \in {Lower(Strip(token_arg))} })

\* where the match of \s*[en-dash em-dash]\s*|\s+-\s+|\s+to\s+ that starts at
\* offset i ends, -1 if none starts there
SeparatorEnd(raw, i) ==
    Only({
        IF after < Len(raw) /\ raw[after + 1] \in {EnDash, EmDash}
        THEN after + 1 + SpanSpaces(raw, after + 1)
        ELSE IF /\ after > i
                /\ after < Len(raw) /\ raw[after + 1] = "-"
                /\ SpanSpaces(raw, after + 1) >= 1
             THEN after + 1 + SpanSpaces(raw, after + 1)
        ELSE IF /\ after > i
                /\ MatchAt(S_to, raw, after)
                /\ SpanSpaces(raw, after + 2) >= 1
             THEN after + 2 + SpanSpaces(raw, after + 2)
        ELSE -1 :
        after \in {i + SpanSpaces(raw, i)} })

\* re.split(separator, raw, maxsplit=1)
SplitDates(raw) ==
    IF \E i \in 0..(Len(raw) - 1) : SeparatorEnd(raw, i) >= 0
    THEN Only({ <<SubSeq(raw, 1, first), SubSeq(raw, SeparatorEnd(raw, first) + 1, Len(raw))>> :
                first \in { i \in 0..(Len(raw) - 1) :
                              /\ SeparatorEnd(raw, i) >= 0
                              /\ \A k \in 0..(i - 1) : SeparatorEnd(raw, k) < 0 } })
    ELSE <<raw>>

\* the start and end of one entry as _calculate_experience_years parses them:
\* None where the entry is skipped, else Some(<<start, end>>)
ParsedRange(dates, today) ==
    Only({
        IF raw = <<>> THEN None
        ELSE Only({
            Only({ IF IsNone(start) \/ IsNone(end) THEN None
                   ELSE Some(<<start[1], end[1]>>) :
                   start \in {parse_month_year(parts[1], today)},
                   end \in {parse_month_year(parts[Len(parts)], today)} }) :
            parts \in {SplitDates(raw)} }) :
        raw \in {Strip(dates)} })

\* mutant: the months of the two dates are left out of the difference
MonthsBetween_YearsOnly(range) == (range[2][1] - range[1][1]) * 12

\* (end.year - start.year) * 12 + (end.month - start.month)
MonthsBetween(range) ==
    (range[2][1] - range[1][1]) * 12 + (range[2][2] - range[1][2])

\* total_months of _calculate_experience_years
RECURSIVE TotalMonths(_, _)
TotalMonths(experience, today) ==
    IF experience = <<>> THEN 0
    ELSE Only({ (IF ~IsNone(range) /\ MonthsBetween(range[1]) > 0
                 THEN MonthsBetween(range[1]) ELSE 0) + rest :
                range \in {ParsedRange(Head(experience).dates, today)},
                rest \in {TotalMonths(Tail(experience), today)} })

\* _calculate_experience_years: a number of years with one decimal
calculate_experience_years(resume, today) ==
    IF resume.experience = <<>> THEN RInt(0)
    ELSE Rat(Round1(Rat(TotalMonths(resume.experience, today), 12)), 10)

----------------------------------------------------------------------------
(* ats_scorer.py: the education factor and the report *)

degree_keywords ==
    << <<<<"p","h","d">>, 100>>,
       <<<<"d","o","c","t","o","r","a","t","e">>, 100>>,
       <<<<"p","h",".","d">>, 100>>,
       <<<<"m","a","s","t","e","r">>, 90>>,
       <<<<"m","s">>, 90>>,
       <<<<"m",".","s",".">>, 90>>,
       <<<<"m","b","a">>, 90>>,
       <<<<"b","a","c","h","e","l","o","r">>, 80>>,
       <<<<"b","s">>, 80>>,
       <<<<"b",".","s",".">>, 80>>,
       <<<<"b","a">>, 80>>,
       <<<<"b",".","a",".">>, 80>> >>

RECURSIVE MaxOf(_)
MaxOf(S) == IF S = {} THEN 0
            ELSE LET x == CHOOSE y \in S : TRUE IN Max2(x, MaxOf(S \ {x}))

\* mutant: the lowest level whose keyword occurs, not the highest
DegreeScore_Lowest(text_lower) ==
    LET found_levels == { degree_keywords[i][2] :
                            i \in { k \in 1..Len(degree_keywords) :
                                      Contains(degree_keywords[k][1], text_lower) } }
    IN IF found_levels = {} THEN 0
       ELSE CHOOSE low \in found_levels : \A other \in found_levels : low <= other

\* the highest degree level whose keyword occurs in the lower-cased text
DegreeScore(text_lower) ==
    MaxOf({ degree_keywords[i][2] :
              i \in { k \in 1..Len(degree_keywords) :
                        Contains(degree_keywords[k][1], text_lower) } })

education_match(jd_education, resume) ==
    IF ~TruthyStr(jd_education) THEN RInt(70)
    ELSE IF resume.education = <<>> THEN RInt(20)
    ELSE Only({
             IF required_score = 0 THEN RInt(70)
             ELSE IF resume_degree_score >= required_score THEN RInt(100)
             ELSE IF resume_degree_score > 0 THEN RInt(60)
             ELSE RInt(30) :
             resume_degree_score \in
                 { MaxOf({ DegreeScore(Lower(resume.education[i].degree)) :
                             i \in 1..Len(resume.education) }) },
             required_score \in {DegreeScore(Lower(jd_education[1]))} })

\* mutant: the severity flips only above three missing skills
build_knockouts_Above3(missing_required) ==
    AsTuple([i \in 1..Len(missing_required) |->
        [skill |-> missing_required[i],
         severity |-> IF Len(missing_required) > 3 THEN "critical" ELSE "warning",
         message |-> MsgPrefix \o missing_required[i] \o MsgSuffix]])

\* mutant: the alerts are built in reverse order
build_knockouts_Reversed(missing_required) ==
    AsTuple([i \in 1..Len(missing_required) |->
        [skill |-> missing_required[Len(missing_required) + 1 - i],
         severity |-> IF Len(missing_required) >= 3 THEN "critical" ELSE "warning",
         message |-> MsgPrefix \o missing_required[Len(missing_required) + 1 - i]
                     \o MsgSuffix]])

\* _build_knockouts
build_knockouts(missing_required) ==
    AsTuple([i \in 1..Len(missing_required) |->
        [skill |-> missing_required[i],
         severity |-> IF Len(missing_required) >= 3 THEN "critical" ELSE "warning",
         message |-> MsgPrefix \o missing_required[i] \o MsgSuffix]])

\* mutant: the required-skills weight raised without rebalancing the others
WEIGHTS_Unbalanced ==
    [required_skills |-> Rat(45, 100),
     preferred_skills |-> Rat(15, 100),
     title_alignment |-> Rat(20, 100),
     experience_relevance |-> Rat(15, 100),
     years_experience |-> Rat(10, 100),
     education |-> Rat(5, 100)]

WEIGHTS ==
    [required_skills |-> Rat(35, 100),
     preferred_skills |-> Rat(15, 100),
     title_alignment |-> Rat(20, 100),
     experience_relevance |-> Rat(15, 100),
     years_experience |-> Rat(10, 100),
     education |-> Rat(5, 100)]

\* the six unrounded factor values of score_resume
\* mutant: an available oracle lifts the required-skills factor to 100
Factors_OracleInSkills(a2c, job, resume, orc, now_year, matched_required, matched_preferred) ==
    [required |-> IF IsNone(orc.experience)
                  THEN SkillsPct(matched_required, job.required_skills)
                  ELSE RInt(100),
     preferred |-> SkillsPct(matched_preferred, job.preferred_skills),
     title |-> title_similarity(a2c, job.job_title, resume, orc),
     experience |-> experience_relevance(job, resume, orc),
     years |-> years_fit(job.required_experience_years, resume, now_year),
     education |-> education_match(job.education, resume)]

Factors(a2c, job, resume, orc, now_year, matched_required, matched_preferred) ==
    [required |-> SkillsPct(matched_required, job.required_skills),
     preferred |-> SkillsPct(matched_preferred, job.preferred_skills),
     title |-> title_similarity(a2c, job.job_title, resume, orc),
     experience |-> experience_relevance(job, resume, orc),
     years |-> years_fit(job.required_experience_years, resume, now_year),
     education |-> education_match(job.education, resume)]

\* the divisors of the divisions that _title_similarity evaluates
TitleDivisors(a2c, jd_title, resume) ==
    IF resume.experience = <<>> THEN {}
    ELSE UNION {
        IF jd_words = {} THEN {}
        ELSE { Cardinality(jd_words) :
               i \in { k \in 1..Len(FirstTwo(resume.experience)) :
                         extract_title_words(a2c, resume.experience[k].title) # {} } }
             \cup (IF TruthyStr(resume.tagline)
                   THEN {Max2(Cardinality(jd_words), 1)} ELSE {}) :
        jd_words \in {extract_title_words(a2c, jd_title)} }

\* the divisor of the division that _experience_relevance evaluates
ExperienceDivisors(job, resume) ==
    IF resume.experience = <<>> \/ JdKeywords(job) = {} THEN {}
    ELSE {Cardinality(JdKeywords(job))}

\* the divisor of the divisions that _years_fit evaluates
YearsDivisors(required_years, resume, now_year) ==
    IF IsNone(required_years) THEN {}
    ELSE UNION {
        IF IsNone(estimated_years) THEN {}
        ELSE IF RLe(RInt(required_years[1]), estimated_years[1]) THEN {}
        ELSE {required_years[1]} :
        estimated_years \in {estimate_years(resume, now_year)} }

\* the divisors of all divisions that score_resume(job, resume) evaluates
Divisors(a2c, job, resume, now_year) ==
    {SkillsDivisor(job.required_skills), SkillsDivisor(job.preferred_skills)}
    \cup TitleDivisors(a2c, job.job_title, resume)
    \cup ExperienceDivisors(job, resume)
    \cup YearsDivisors(job.required_experience_years, resume, now_year)

\* the exception that score_resume(job, resume) raises, None if it returns
Raises(a2c, job, resume, now_year) ==
    IF 0 \in Divisors(a2c, job, resume, now_year)
    THEN Some("ZeroDivisionError") ELSE None

\* the weighted total of score_resume
Overall(f) ==
    Only({ RAdd(RAdd(RAdd(t1, t2), RAdd(t3, t4)), RAdd(t5, t6)) :
           t1 \in {RMul(f.required, WEIGHTS.required_skills)},
           t2 \in {RMul(f.preferred, WEIGHTS.preferred_skills)},
           t3 \in {RMul(f.title, WEIGHTS.title_alignment)},
           t4 \in {RMul(f.experience, WEIGHTS.experience_relevance)},
           t5 \in {RMul(f.years, WEIGHTS.years_experience)},
           t6 \in {RMul(f.education, WEIGHTS.education)} })

\* the ResumeScore assembled from the locals of score_resume; every
\* percentage is in tenths (round(x, 1))
ResumeScore(resume, l, overall_score) ==
    [resume_id |-> resume.id,
     resume_name |-> resume.name,
     file_name |-> resume.file_name,
     overall_score |-> overall_score,
     breakdown |->
        [required_skills_pct |-> Round1(l.factors.required),
         preferred_skills_pct |-> Round1(l.factors.preferred),
         title_similarity_pct |-> Round1(l.factors.title),
         experience_relevance_pct |-> Round1(l.factors.experience),
         years_experience_fit_pct |-> Round1(l.factors.years),
         education_match_pct |-> Round1(l.factors.education)],
     knockout_alerts |-> build_knockouts(l.missing_required),
     matched_required_skills |-> l.matched_required,
     missing_required_skills |-> l.missing_required,
     matched_preferred_skills |-> l.matched_preferred]

\* the locals of score_resume when it returns
ScoreLocals(a2c, job, resume, orc, now_year) ==
    Only({ [factors |-> Factors(a2c, job, resume, orc, now_year,
                                matched_required, matched_preferred),
            matched_required |-> matched_required,
            missing_required |-> missing_required,
            matched_preferred |-> matched_preferred] :
           matched_required \in {SelectSkills(a2c, job.required_skills, resume, TRUE)},
           missing_required \in {SelectSkills(a2c, job.required_skills, resume, FALSE)},
           matched_preferred \in {SelectSkills(a2c, job.preferred_skills, resume, TRUE)} })

\* score_resume: the reports it can return (one, or two at a rounding tie
\* of the weighted total), each with the six unrounded factors beside it
score_resume(a2c, job, resume, orc, now_year) ==
    UNION { { [factors |-> l.factors, score |-> ResumeScore(resume, l, overall)] :
              overall \in Round1Float(Overall(l.factors)) } :
            l \in {ScoreLocals(a2c, job, resume, orc, now_year)} }

\* [score_resume(jd, r) for r in resumes]: the lists it can build
RECURSIVE ScoreAll(_, _, _, _, _)
ScoreAll(a2c, job, rs, orc, now_year) ==
    IF rs = <<>> THEN {<<>>}
    ELSE UNION { { <<first.score>> \o rest :
                   rest \in ScoreAll(a2c, job, Tail(rs), orc, now_year) } :
                 first \in score_resume(a2c, job, Head(rs), orc, now_year) }

\* mutant: s is inserted before the entries of equal score
RECURSIVE InsertByScore_BeforeEqual(_, _)
InsertByScore_BeforeEqual(sorted, s) ==
    IF sorted = <<>> THEN <<s>>
    ELSE IF Head(sorted).overall_score > s.overall_score
         THEN <<Head(sorted)>> \o InsertByScore_BeforeEqual(Tail(sorted), s)
         ELSE <<s>> \o sorted

\* list.sort(key=overall_score, reverse=True): a stable insertion of s after
\* every entry whose score is not lower
RECURSIVE InsertByScore(_, _)
InsertByScore(sorted, s) ==
    IF sorted = <<>> THEN <<s>>
    ELSE IF Head(sorted).overall_score >= s.overall_score
         THEN <<Head(sorted)>> \o InsertByScore(Tail(sorted), s)
         ELSE <<s>> \o sorted

\* mutant: the scored list is returned in input order
SortByScore_Unsorted(sorted, rest) == sorted \o rest

RECURSIVE SortByScore(_, _)
SortByScore(sorted, rest) ==
    IF rest = <<>> THEN sorted
    ELSE SortByScore(InsertByScore(sorted, Head(rest)), Tail(rest))

\* rank_resumes from the sort on: the RankingResponse for the scored list
RankingResponse(job, scored) ==
    Only({ [jd_id |-> job.id,
            rankings |-> sorted,
            top_resume_id |-> IF sorted # <<>> THEN sorted[1].resume_id ELSE ""] :
           sorted \in {SortByScore(<<>>, scored)} })

----------------------------------------------------------------------------
(* inputs *)

MaxRequired == 3
MaxResumes == 2

\* the lists of at most n distinct elements of S
RECURSIVE ListsUpTo(_, _)
ListsUpTo(S, n) ==
    IF n = 0 THEN {<<>>}
    ELSE LET shorter == ListsUpTo(S, n - 1)
         IN  shorter \cup
             UNION { { Append(q, x) : x \in { y \in S : \A i \in 1..Len(q) : q[i] # y } } :
                     q \in shorter }

SkillPool == {S_Python, S_Kubernetes, S_Go, S_Docker}

RequiredLists == ListsUpTo(SkillPool, MaxRequired)

\* the fields of a ParsedJD other than required_skills
JobProfiles ==
    { [id |-> "jd1", job_title |-> S_PythonEngineer, preferred_skills |-> <<>>,
       required_experience_years |-> None, education |-> None,
       key_responsibilities |-> <<>>, keywords_to_match |-> <<>>],
      [id |-> "jd2", job_title |-> S_The, preferred_skills |-> <<S_Go>>,
       required_experience_years |-> Some(3), education |-> Some(S_Master),
       key_responsibilities |-> <<S_apis>>, keywords_to_match |-> <<S_kw_python>>],
      [id |-> "jd3", job_title |-> <<>>, preferred_skills |-> <<S_K8s, S_Docker>>,
       required_experience_years |-> Some(0), education |-> Some(S_AnyDegree),
       key_responsibilities |-> <<>>, keywords_to_match |-> <<S_kw_services>>],
      [id |-> "jd4", job_title |-> S_SeniorEngineer, preferred_skills |-> <<S_Python>>,
       required_experience_years |-> None, education |-> Some(S_PhD),
       key_responsibilities |-> <<>>,
       keywords_to_match |-> <<S_kw_python, S_kw_services, S_Docker>>] }

JobWith(profile, required) ==
    [id |-> profile.id,
     job_title |-> profile.job_title,
     required_skills |-> required,
     preferred_skills |-> profile.preferred_skills,
     required_experience_years |-> profile.required_experience_years,
     education |-> profile.education,
     key_responsibilities |-> profile.key_responsibilities,
     keywords_to_match |-> profile.keywords_to_match]

Jobs == { JobWith(p, r) : p \in JobProfiles, r \in RequiredLists }

\* a job that asks for nothing
PlainJob ==
    [id |-> "jd1", job_title |-> S_PythonEngineer, required_skills |-> <<>>,
     preferred_skills |-> <<>>, required_experience_years |-> None,
     education |-> None, key_responsibilities |-> <<>>,
     keywords_to_match |-> <<>>]

\* the jobs that whole lists of resumes are ranked against
RankJobs == { j \in Jobs : /\ j.id \in {"jd1", "jd2"}
                           /\ j.required_skills \in
                                {<<>>, <<S_Python, S_Kubernetes>>} }

NoResumeText ==
    [tagline |-> None, summary |-> None, skills |-> <<>>, experience |-> <<>>,
     projects |-> <<>>, education |-> <<>>, certifications |-> <<>>]

PythonJob ==
    [title |-> S_PythonEngineer, company |-> S_Acme, dates |-> S_JanMar,
     bullets |-> <<S_built>>]

Resume(id, content) ==
    [id |-> id, name |-> "candidate", file_name |-> "resume.pdf",
     tagline |-> content.tagline, summary |-> content.summary,
     skills |-> content.skills, experience |-> content.experience,
     projects |-> content.projects, education |-> content.education,
     certifications |-> content.certifications]

PythonContent ==
    [NoResumeText EXCEPT !.summary = Some(S_backend), !.skills = <<S_Python>>,
                         !.experience = <<PythonJob>>,
                         !.education = <<[degree |-> S_BS, school |-> S_MIT,
                                          year |-> None]>>]

ResumePool ==
    { Resume("r0", NoResumeText),
      Resume("r1", PythonContent),
      Resume("r2", PythonContent),
      Resume("r3", [NoResumeText EXCEPT !.summary = Some(S_walk)]),
      Resume("r4",
        [NoResumeText EXCEPT
            !.tagline = Some(S_PythonEngineer),
            !.summary = Some(S_proficient),
            !.skills = <<S_K8s>>,
            !.experience =
                <<[title |-> S_Engineer, company |-> S_Acme,
                   dates |-> S_Since2020, bullets |-> <<S_deployed, S_built>>],
                  [title |-> <<>>, company |-> S_Acme,
                   dates |-> S_Summer, bullets |-> <<>>]>>,
            !.projects = <<[name |-> S_Deploy, technologies |-> <<S_Docker>>,
                            bullets |-> <<>>]>>,
            !.education = <<[degree |-> S_PhD, school |-> S_MIT, year |-> None]>>,
            !.certifications = <<S_CKA>>]),
      Resume("r5",
        [NoResumeText EXCEPT
            !.skills = <<S_golang, S_kube>>,
            !.experience = <<[PythonJob EXCEPT !.title = S_SeniorEngineer]>>]) }

ResumeLists == ListsUpTo(ResumePool, MaxResumes)

\* data/skill_synonyms.json: canonical -> aliases
SynonymFiles ==
    { None,
      Some(<<[canonical |-> S_comment, aliases |-> <<>>],
             [canonical |-> S_Kubernetes, aliases |-> <<S_K8s, S_kube>>],
             [canonical |-> S_Go, aliases |-> <<S_golang>>]>>) }

\* answers of semantic_similarity: to the calls of _title_similarity in call
\* order, and to the call of _experience_relevance; None is unavailable
Oracles ==
    { [title |-> <<None, None, None>>, experience |-> None],
      [title |-> <<Some(RInt(0)), Some(Rat(1, 2)), None>>,
       experience |-> Some(Rat(1, 2))],
      [title |-> <<Some(RInt(1)), Some(RInt(1)), Some(RInt(1))>>,
       experience |-> Some(RInt(1))] }

Years == {2026}

----------------------------------------------------------------------------
(* the state machine *)

\* no call of a single helper and no concurrent caller
NoHelperCalls ==
    /\ current_month = 1
    /\ estimate = None
    /\ experience_years = None
    /\ years_pct = None
    /\ education_pct = None
    /\ target_skill = None
    /\ candidate_list = None
    /\ normalized = None
    /\ found = None

NoThreads ==
    /\ threads = None
    /\ loads = 0

\* no job description is being built and no resume has been parsed
NoStore ==
    /\ jd_data = None
    /\ resume_cache = EmptyDict
    /\ parse_calls = None

Init ==
    /\ synonym_file \in SynonymFiles
    /\ canonical_to_aliases = None
    /\ alias_to_canonical = None
    /\ jd \in Jobs
    /\ resumes \in ResumeLists
    /\ Len(resumes) > 1 => jd \in RankJobs
    /\ oracle \in Oracles
    /\ current_year \in Years
    /\ factors = None
    /\ report = None
    /\ scores = None
    /\ ranking = None
    /\ raised = None
    /\ NoHelperCalls
    /\ NoThreads
    /\ NoStore

\* whether score_resume(job, resume) reaches a normalize_skill call
Normalizes(job, resume) ==
    \/ job.required_skills # <<>>
    \/ job.preferred_skills # <<>>
    \/ /\ resume.experience # <<>>
       /\ extract_title_words(EmptyDict, job.job_title) # {}

\* the module globals after a call that may have called normalize_skill
TablesAfter(called) ==
    IF called
    THEN EnsureLoaded(canonical_to_aliases, alias_to_canonical, synonym_file)
    ELSE [c2a |-> canonical_to_aliases, a2c |-> alias_to_canonical]

\* score_resume(jd, resumes[0]); normalize_skill reads the table that
\* _ensure_loaded left in the module global
ScoreResume ==
    /\ IsNone(report)
    /\ IsNone(raised)
    /\ resumes # <<>>
    /\ \E tables \in {TablesAfter(Normalizes(jd, resumes[1]))} :
        /\ canonical_to_aliases' = tables.c2a
        /\ alias_to_canonical' = tables.a2c
    /\ raised' = Raises(alias_to_canonical'[1], jd, resumes[1], current_year)
    /\ IF IsNone(raised')
       THEN \E result \in score_resume(alias_to_canonical'[1], jd, resumes[1],
                                       oracle, current_year) :
               /\ factors' = Some(result.factors)
               /\ report' = Some(result.score)
       ELSE UNCHANGED <<factors, report>>
    /\ UNCHANGED <<synonym_file, jd, resumes, oracle, current_year, scores, ranking>>
    /\ UNCHANGED <<helper_vars, thread_vars, store_vars>>

\* the exception that escapes [score_resume(jd, r) for r in rs], None if none
RECURSIVE RaisesAny(_, _, _, _)
RaisesAny(a2c, job, rs, now_year) ==
    IF rs = <<>> THEN None
    ELSE IF ~IsNone(Raises(a2c, job, Head(rs), now_year))
         THEN Raises(a2c, job, Head(rs), now_year)
         ELSE RaisesAny(a2c, job, Tail(rs), now_year)

\* rank_resumes(jd, resumes)
RankResumes ==
    /\ IsNone(ranking)
    /\ IsNone(raised)
    /\ \E tables \in {TablesAfter(\E i \in 1..Len(resumes) :
                                     Normalizes(jd, resumes[i]))} :
        /\ canonical_to_aliases' = tables.c2a
        /\ alias_to_canonical' = tables.a2c
    /\ raised' = RaisesAny(alias_to_canonical'[1], jd, resumes, current_year)
    /\ IF IsNone(raised')
       THEN \E scored \in ScoreAll(alias_to_canonical'[1], jd, resumes, oracle,
                                   current_year) :
               /\ scores' = Some(scored)
               /\ ranking' = Some(RankingResponse(jd, scored))
       ELSE UNCHANGED <<scores, ranking>>
    /\ UNCHANGED <<synonym_file, jd, resumes, oracle, current_year, report, factors>>
    /\ UNCHANGED <<helper_vars, thread_vars, store_vars>>

Next == ScoreResume \/ RankResumes

Spec == Init /\ [][Next]_vars

----------------------------------------------------------------------------
(* the duration estimators and the years-fit factor, called on their own *)

MaxEntries == 2

DatePool ==
    { S_JanMar, S_Since2020, S_Summer, <<>>, S_MarJan, S_JunDec, S_In2021, S_In2022 }

\* the experience sections of at most MaxEntries entries
RECURSIVE ExperienceUpTo(_)
ExperienceUpTo(n) ==
    IF n = 0 THEN {<<>>}
    ELSE ExperienceUpTo(n - 1)
         \cup { Append(shorter, [PythonJob EXCEPT !.dates = dates]) :
                shorter \in { e \in ExperienceUpTo(n - 1) : Len(e) = n - 1 },
                dates \in DatePool }

DatedResumes ==
    { Resume("r1", [NoResumeText EXCEPT !.experience = experience]) :
      experience \in ExperienceUpTo(MaxEntries) }

\* the jobs that differ in the minimum years they state
YearsJobs ==
    { [PlainJob EXCEPT !.required_experience_years = required_years] :
      required_years \in {None, Some(0), Some(3), Some(5), Some(10)} }

\* date.today() as <<year, month>>
Todays == { <<2020, 6>>, <<2026, 1>>, <<2026, 11>>, <<2027, 3>> }

NoScorerCalls ==
    /\ synonym_file = None
    /\ canonical_to_aliases = None
    /\ alias_to_canonical = None
    /\ oracle = [title |-> <<None, None, None>>, experience |-> None]
    /\ factors = None
    /\ report = None
    /\ scores = None
    /\ ranking = None
    /\ raised = None

InitYears ==
    /\ NoScorerCalls
    /\ NoThreads
    /\ NoStore
    /\ jd \in YearsJobs
    /\ resumes \in { <<r>> : r \in DatedResumes }
    /\ \E today \in Todays : current_year = today[1] /\ current_month = today[2]
    /\ estimate = None
    /\ experience_years = None
    /\ years_pct = None
    /\ education_pct = None
    /\ target_skill = None
    /\ candidate_list = None
    /\ normalized = None
    /\ found = None

\* _estimate_years(resumes[0])
EstimateYears ==
    /\ IsNone(estimate)
    /\ estimate' = Some(estimate_years(resumes[1], current_year))
    /\ UNCHANGED <<scorer_vars, thread_vars, store_vars, current_month, experience_years,
                   years_pct, education_pct, target_skill, candidate_list,
                   normalized, found>>

\* _calculate_experience_years(resumes[0])
CalculateExperienceYears ==
    /\ IsNone(experience_years)
    /\ experience_years' =
          Some(calculate_experience_years(resumes[1], <<current_year, current_month>>))
    /\ UNCHANGED <<scorer_vars, thread_vars, store_vars, current_month, estimate,
                   years_pct, education_pct, target_skill, candidate_list,
                   normalized, found>>

\* _years_fit(jd.required_experience_years, resumes[0])
YearsFit ==
    /\ IsNone(years_pct)
    /\ years_pct' = Some(years_fit(jd.required_experience_years, resumes[1],
                                   current_year))
    /\ UNCHANGED <<scorer_vars, thread_vars, store_vars, current_month, estimate,
                   experience_years, education_pct, target_skill, candidate_list,
                   normalized, found>>

NextYears == EstimateYears \/ CalculateExperienceYears \/ YearsFit

SpecYears == InitYears /\ [][NextYears]_vars

----------------------------------------------------------------------------
(* the education factor, called on its own *)

S_Diploma == <<"D", "i", "p", "l", "o", "m", "a", " ", "i", "n", " ", "N", "u", "r", "s", "i", "n", "g">>
S_MBAorPhD == <<"M", "B", "A", " ", "o", "r", " ", "P", "h", "D">>
S_Bachelor == <<"B", "a", "c", "h", "e", "l", "o", "r", " ", "o", "f", " ", "S", "c", "i", "e", "n", "c", "e">>
S_MS == <<"M", ".", "S", ".", " ", "C", "h", "e", "m", "i", "s", "t", "r", "y">>

\* ParsedJD.education: absent, empty, or a requirement text
EducationRequirements ==
    { None, Some(<<>>), Some(S_AnyDegree), Some(S_PhD), Some(S_Master),
      Some(S_Bachelor), Some(S_MBAorPhD) }

DegreePool == { S_BS, S_PhD, S_MS, S_Diploma, <<>> }

\* the education sections of at most MaxEntries entries
RECURSIVE EducationUpTo(_)
EducationUpTo(n) ==
    IF n = 0 THEN {<<>>}
    ELSE EducationUpTo(n - 1)
         \cup { Append(shorter, [degree |-> degree, school |-> S_MIT, year |-> None]) :
                shorter \in { e \in EducationUpTo(n - 1) : Len(e) = n - 1 },
                degree \in DegreePool }

EducatedResumes ==
    { Resume("r1", [NoResumeText EXCEPT !.education = education]) :
      education \in EducationUpTo(MaxEntries) }

EducationJobs ==
    { [PlainJob EXCEPT !.education = requirement] :
      requirement \in EducationRequirements }

InitEducation ==
    /\ NoScorerCalls
    /\ NoThreads
    /\ NoStore
    /\ jd \in EducationJobs
    /\ resumes \in { <<r>> : r \in EducatedResumes }
    /\ current_year = 2026
    /\ NoHelperCalls

\* _education_match(jd.education, resumes[0])
EducationMatch ==
    /\ IsNone(education_pct)
    /\ education_pct' = Some(education_match(jd.education, resumes[1]))
    /\ UNCHANGED <<scorer_vars, thread_vars, store_vars, current_month, estimate,
                   experience_years, years_pct, target_skill, candidate_list,
                   normalized, found>>

NextEducation == EducationMatch

SpecEducation == InitEducation /\ [][NextEducation]_vars

----------------------------------------------------------------------------
(* normalize_skill and find_matching_skill, called on their own *)

MaxCandidates == 2

S_K8S_padded == <<" ", "K", "8", "S", " ">>

\* the files of SynonymFiles and one whose comment entry carries an alias and
\* whose aliases are padded and in upper case
LookupFiles ==
    SynonymFiles
    \cup { Some(<<[canonical |-> S_comment, aliases |-> <<S_golang>>],
                  [canonical |-> S_Kubernetes, aliases |-> <<S_K8S_padded>>]>>) }

LookupPool == { S_Kubernetes, S_K8s, S_kube, S_Go, S_golang, S_Python }

LookupInit(files) ==
    /\ synonym_file \in files
    /\ canonical_to_aliases = None
    /\ alias_to_canonical = None
    /\ jd = PlainJob
    /\ resumes = <<>>
    /\ oracle = [title |-> <<None, None, None>>, experience |-> None]
    /\ current_year = 2026
    /\ factors = None
    /\ report = None
    /\ scores = None
    /\ ranking = None
    /\ raised = None
    /\ NoThreads
    /\ NoStore
    /\ current_month = 1
    /\ estimate = None
    /\ experience_years = None
    /\ years_pct = None
    /\ education_pct = None
    /\ target_skill \in { Some(skill) : skill \in LookupPool }
    /\ candidate_list \in { Some(list) : list \in ListsUpTo(LookupPool, MaxCandidates) }
    /\ normalized = None
    /\ found = None

InitLookup == LookupInit(LookupFiles)

\* files in which a term is listed under two entries: a canonical name that
\* is also an alias of another, and an alias of two canonical names
OverlappingFiles ==
    { Some(<<[canonical |-> S_Go, aliases |-> <<S_golang>>],
             [canonical |-> S_golang, aliases |-> <<S_Go>>]>>),
      Some(<<[canonical |-> S_Kubernetes, aliases |-> <<S_K8s>>],
             [canonical |-> S_Docker, aliases |-> <<S_K8s, S_kube>>]>>) }

InitTables == LookupInit({f \in LookupFiles : f # None} \cup OverlappingFiles)

\* normalize_skill(target_skill), the tables built by the first call
NormalizeSkill ==
    /\ IsNone(normalized)
    /\ \E tables \in {EnsureLoaded(canonical_to_aliases, alias_to_canonical,
                                   synonym_file)} :
          /\ canonical_to_aliases' = tables.c2a
          /\ alias_to_canonical' = tables.a2c
          /\ normalized' = Some(normalize_skill(tables.a2c[1], target_skill[1]))
    /\ UNCHANGED <<synonym_file, jd, resumes, oracle, current_year, factors,
                   report, scores, ranking, raised, thread_vars, store_vars,
                   current_month,
                   estimate, experience_years, years_pct, education_pct,
                   target_skill, candidate_list, found>>

\* find_matching_skill(target_skill, candidate_list)
FindMatchingSkill ==
    /\ IsNone(found)
    /\ \E tables \in {EnsureLoaded(canonical_to_aliases, alias_to_canonical,
                                   synonym_file)} :
          /\ canonical_to_aliases' = tables.c2a
          /\ alias_to_canonical' = tables.a2c
          /\ found' = Some(find_matching_skill(tables.a2c[1], target_skill[1],
                                               candidate_list[1]))
    /\ UNCHANGED <<synonym_file, jd, resumes, oracle, current_year, factors,
                   report, scores, ranking, raised, thread_vars, store_vars,
                   current_month,
                   estimate, experience_years, years_pct, education_pct,
                   target_skill, candidate_list, normalized>>

NextLookup == NormalizeSkill \/ FindMatchingSkill

SpecLookup == InitLookup /\ [][NextLookup]_vars

SpecTables == InitTables /\ [][NextLookup]_vars

----------------------------------------------------------------------------
(* score_resume called from several threads; _load statement by statement *)

NThreads == 2

ThreadIds == 1..NThreads

ConcurrentJobs ==
    { j \in Jobs : /\ j.id \in {"jd1", "jd2"}
                   /\ j.required_skills \in {<<>>, <<S_Kubernetes>>} }

\* one resume for each thread
ConcurrentResumes ==
    { rs \in [ThreadIds -> { r \in ResumePool : r.id \in {"r0", "r4", "r5"} }] :
        \A t \in ThreadIds : t > 2 => rs[t] = rs[2] }

\* a thread that has not called score_resume yet
IdleThread ==
    [pc |-> "idle", entry |-> 0, alias |-> 0, report |-> None, raised |-> None]

InitConcurrent ==
    /\ synonym_file \in SynonymFiles
    /\ canonical_to_aliases = None
    /\ alias_to_canonical = None
    /\ jd \in ConcurrentJobs
    /\ resumes \in ConcurrentResumes
    /\ oracle = [title |-> <<None, None, None>>, experience |-> None]
    /\ current_year = 2026
    /\ factors = None
    /\ report = None
    /\ scores = None
    /\ ranking = None
    /\ raised = None
    /\ NoHelperCalls
    /\ NoStore
    /\ threads = Some([t \in ThreadIds |-> IdleThread])
    /\ loads = 0

ThreadAt(t, pc) == threads[1][t].pc = pc

ThreadStep(t, next_thread) ==
    threads' = Some([threads[1] EXCEPT ![t] = next_thread])

UnchangedInputs ==
    UNCHANGED <<synonym_file, jd, resumes, oracle, current_year, factors, report,
                scores, ranking, raised, helper_vars, store_vars>>

\* score_resume(jd, resumes[t]) is entered; it runs up to its first
\* normalize_skill call, or to its end when it makes none
Call(t) ==
    /\ ThreadAt(t, "idle")
    /\ ThreadStep(t, [threads[1][t] EXCEPT
                        !.pc = IF Normalizes(jd, resumes[t]) THEN "ensure"
                               ELSE "score"])
    /\ UNCHANGED <<canonical_to_aliases, alias_to_canonical, loads>>
    /\ UnchangedInputs

\* _ensure_loaded: if _canonical_to_aliases is None
ThreadEnsureLoaded(t) ==
    /\ ThreadAt(t, "ensure")
    /\ ThreadStep(t, [threads[1][t] EXCEPT
                        !.pc = IF IsNone(canonical_to_aliases) THEN "line27"
                               ELSE "assert"])
    /\ UNCHANGED <<canonical_to_aliases, alias_to_canonical, loads>>
    /\ UnchangedInputs

\* _load: _canonical_to_aliases = {}
LoadLine27(t) ==
    /\ ThreadAt(t, "line27")
    /\ canonical_to_aliases' = Some(EmptyDict)
    /\ loads' = loads + 1
    /\ ThreadStep(t, [threads[1][t] EXCEPT !.pc = "line28"])
    /\ UNCHANGED alias_to_canonical
    /\ UnchangedInputs

\* _load: _alias_to_canonical = {}
LoadLine28(t) ==
    /\ ThreadAt(t, "line28")
    /\ alias_to_canonical' = Some(EmptyDict)
    /\ ThreadStep(t, [threads[1][t] EXCEPT !.pc = "read"])
    /\ UNCHANGED <<canonical_to_aliases, loads>>
    /\ UnchangedInputs

\* _load: raw = json.loads(_SYNONYM_FILE.read_text()), return on an exception
LoadRead(t) ==
    /\ ThreadAt(t, "read")
    /\ ThreadStep(t, IF synonym_file = None
                     THEN [threads[1][t] EXCEPT !.pc = "assert"]
                     ELSE [threads[1][t] EXCEPT !.pc = "entry", !.entry = 1])
    /\ UNCHANGED <<canonical_to_aliases, alias_to_canonical, loads>>
    /\ UnchangedInputs

\* _load: the next item of raw.items(), skipped when its key starts with "_",
\* else its line 40; the end of the loop when no item is left
LoadCanonical(t) ==
    /\ ThreadAt(t, "entry")
    /\ LET me == threads[1][t]
           entries == synonym_file[1]
       IN  IF me.entry > Len(entries)
           THEN /\ ThreadStep(t, [me EXCEPT !.pc = "assert"])
                /\ UNCHANGED canonical_to_aliases
           ELSE IF /\ entries[me.entry].canonical # <<>>
                   /\ Head(entries[me.entry].canonical) = "_"
           THEN /\ ThreadStep(t, [me EXCEPT !.entry = me.entry + 1])
                /\ UNCHANGED canonical_to_aliases
           ELSE /\ canonical_to_aliases' =
                      Some(Put(canonical_to_aliases[1],
                               Strip(Lower(entries[me.entry].canonical)),
                               AsTuple([i \in 1..Len(entries[me.entry].aliases) |->
                                   Strip(Lower(entries[me.entry].aliases[i]))])))
                /\ ThreadStep(t, [me EXCEPT !.pc = "alias", !.alias = 1])
    /\ UNCHANGED <<alias_to_canonical, loads>>
    /\ UnchangedInputs

\* _load: one pass of the loop of lines 41-42, or its end
LoadAlias(t) ==
    /\ ThreadAt(t, "alias")
    /\ LET me == threads[1][t]
           e == synonym_file[1][me.entry]
       IN  IF me.alias > Len(e.aliases)
           THEN /\ ThreadStep(t, [me EXCEPT !.pc = "entry", !.entry = me.entry + 1,
                                            !.alias = 0])
                /\ UNCHANGED alias_to_canonical
           ELSE /\ alias_to_canonical' =
                      Some(Put(alias_to_canonical[1],
                               Strip(Lower(e.aliases[me.alias])),
                               Strip(Lower(e.canonical))))
                /\ ThreadStep(t, [me EXCEPT !.alias = me.alias + 1])
    /\ UNCHANGED <<canonical_to_aliases, loads>>
    /\ UnchangedInputs

\* normalize_skill: assert _alias_to_canonical is not None
NormalizeAssert(t) ==
    /\ ThreadAt(t, "assert")
    /\ ThreadStep(t, IF IsNone(alias_to_canonical)
                     THEN [threads[1][t] EXCEPT !.pc = "done", !.entry = 0,
                                                !.raised = Some("AssertionError")]
                     ELSE [threads[1][t] EXCEPT !.pc = "score", !.entry = 0])
    /\ UNCHANGED <<canonical_to_aliases, alias_to_canonical, loads>>
    /\ UnchangedInputs

\* the rest of score_resume(jd, resumes[t]) in one step: every lookup of the
\* call reads the alias table as it stands now
ThreadScore(t) ==
    /\ ThreadAt(t, "score")
    /\ \E a2c \in {IF IsNone(alias_to_canonical) THEN EmptyDict
                   ELSE alias_to_canonical[1]} :
       \E failure \in {Raises(a2c, jd, resumes[t], current_year)} :
          IF IsNone(failure)
          THEN \E result \in score_resume(a2c, jd, resumes[t], oracle, current_year) :
                  ThreadStep(t, [threads[1][t] EXCEPT !.pc = "done",
                                                      !.report = Some(result.score)])
          ELSE ThreadStep(t, [threads[1][t] EXCEPT !.pc = "done",
                                                   !.raised = failure])
    /\ UNCHANGED <<canonical_to_aliases, alias_to_canonical, loads>>
    /\ UnchangedInputs

NextConcurrent ==
    \E t \in ThreadIds :
        \/ Call(t)
        \/ ThreadEnsureLoaded(t)
        \/ LoadLine27(t)
        \/ LoadLine28(t)
        \/ LoadRead(t)
        \/ LoadCanonical(t)
        \/ LoadAlias(t)
        \/ NormalizeAssert(t)
        \/ ThreadScore(t)

SpecConcurrent == InitConcurrent /\ [][NextConcurrent]_vars

----------------------------------------------------------------------------
(* jd_service.py: the category of a job description; score_resume on the
   record that _build_parsed_jd returns *)

\* the values of the enumeration JDType
JDType ==
    {"java_backend", "python_backend", "ai_ml", "frontend", "fullstack", "new_grad"}

\* mutant: the label is kept as it comes
safe_jd_type_Unchecked(val) ==
    val

\* _safe_jd_type: JDType(val), JDType.FULLSTACK on its ValueError
safe_jd_type(val) ==
    IF val \in JDType THEN val ELSE "fullstack"

\* what the language model may put under "jd_type": None is a dict without the key
CategoryLabels ==
    {None} \cup { Some(label) :
                    label \in JDType \cup {"java-backend", "FULLSTACK", "devops", ""} }

\* the other keys of the dict, as the fields they become
CategoryJobs ==
    { j \in Jobs : j.required_skills \in {<<>>, <<S_Python, S_Kubernetes>>} }

\* _build_parsed_jd: d.get("jd_type", "fullstack") through _safe_jd_type
build_parsed_jd(data) ==
    [jd_type |-> safe_jd_type(IF data.jd_type = None THEN "fullstack"
                              ELSE data.jd_type[1])]
    @@ data.fields

InitCategory ==
    /\ synonym_file \in {f \in SynonymFiles : f # None}
    /\ canonical_to_aliases = None
    /\ alias_to_canonical = None
    /\ jd = None
    /\ resumes \in { <<r>> : r \in { p \in ResumePool : p.id \in {"r0", "r1", "r4", "r5"} } }
    /\ oracle \in Oracles
    /\ current_year = 2026
    /\ factors = None
    /\ report = None
    /\ scores = None
    /\ ranking = None
    /\ raised = None
    /\ NoHelperCalls
    /\ NoThreads
    /\ jd_data \in { Some([jd_type |-> label, fields |-> job]) :
                       label \in CategoryLabels, job \in CategoryJobs }
    /\ resume_cache = EmptyDict
    /\ parse_calls = None

\* jd = _build_parsed_jd(jd_data)
BuildParsedJD ==
    /\ jd = None
    /\ jd' = build_parsed_jd(jd_data[1])
    /\ UNCHANGED <<synonym_file, canonical_to_aliases, alias_to_canonical, resumes,
                   oracle, current_year, factors, report, scores, ranking, raised,
                   helper_vars, thread_vars, store_vars>>

\* score_resume(jd, resumes[0]) on the record that was built
ScoreParsedJD ==
    /\ jd # None
    /\ ScoreResume

NextCategory == BuildParsedJD \/ ScoreParsedJD

SpecCategory == InitCategory /\ [][NextCategory]_vars

----------------------------------------------------------------------------
(* score_resume on resumes that differ in their titles and tagline *)

MaxTitled == 3

S_GolangEngineer == <<"G", "o", "l", "a", "n", "g", " ", "E", "n", "g", "i", "n", "e", "e", "r">>
S_GoEngineer == <<"G", "o", " ", "E", "n", "g", "i", "n", "e", "e", "r">>
S_CEngineer == <<"C", " ", "E", "n", "g", "i", "n", "e", "e", "r">>

ExperienceTitles == { S_PythonEngineer, S_Engineer, <<>>, S_GolangEngineer }

\* the experience sections of at most MaxTitled entries, most recent first
RECURSIVE TitledUpTo(_)
TitledUpTo(n) ==
    IF n = 0 THEN {<<>>}
    ELSE TitledUpTo(n - 1)
         \cup { Append(shorter, [title |-> title, company |-> S_Acme,
                                 dates |-> S_JanMar, bullets |-> <<>>]) :
                shorter \in { e \in TitledUpTo(n - 1) : Len(e) = n - 1 },
                title \in ExperienceTitles }

Taglines == { None, Some(<<>>), Some(S_SeniorEngineer) }

TitledResumes ==
    { Resume("r1", [NoResumeText EXCEPT !.experience = experience,
                                        !.tagline = tagline]) :
      experience \in TitledUpTo(MaxTitled), tagline \in Taglines }

TitledJobs ==
    { [PlainJob EXCEPT !.job_title = job_title] :
      job_title \in { S_PythonEngineer, S_The, <<>>, S_GoEngineer, S_CEngineer } }

InitTitles ==
    /\ synonym_file \in {f \in SynonymFiles : f # None}
    /\ canonical_to_aliases = None
    /\ alias_to_canonical = None
    /\ jd \in TitledJobs
    /\ resumes \in { <<r>> : r \in TitledResumes }
    /\ oracle \in Oracles
    /\ current_year = 2026
    /\ factors = None
    /\ report = None
    /\ scores = None
    /\ ranking = None
    /\ raised = None
    /\ NoHelperCalls
    /\ NoThreads
    /\ NoStore

NextTitles == ScoreResume

SpecTitles == InitTitles /\ [][NextTitles]_vars

----------------------------------------------------------------------------
(* resume_service.py: parse_resume and the resume cache, resume_routes.py *)

\* the parse_resume calls of one run
MaxCalls == 3

\* uploaded files: two resumes and a scan that no text is extracted from
FileBytes == {"cv1", "cv2", "scan"}

FileNames == {"cv.pdf", "cv.txt"}

\* md5_hash(file_bytes): one digest per content
md5_hash(file_bytes) == <<"md5", file_bytes>>

\* ext in ("pdf", "docx", "doc")
SupportedType(file_name) == file_name = "cv.pdf"

\* raw_text and len(raw_text.strip()) >= 50
MeaningfulText(file_bytes) == file_bytes # "scan"

\* the fields that the extraction of complete_json gives _build_parsed_resume
ExtractedContent(file_bytes) ==
    IF file_bytes = "cv1" THEN PythonContent
    ELSE [NoResumeText EXCEPT !.skills = <<S_golang, S_kube>>]

\* _build_parsed_resume in the n-th call: id=str(uuid.uuid4()) is a value no
\* other call draws, written n
build_parsed_resume(n, file_bytes, file_name) ==
    [file_hash |-> md5_hash(file_bytes)]
    @@ [Resume(n, ExtractedContent(file_bytes)) EXCEPT !.file_name = file_name]

\* for cached in _resume_cache.values(): if cached.file_hash == file_hash
CacheHits(file_hash) ==
    { i \in 1..Len(resume_cache) : resume_cache[i].file_hash = file_hash }

Min(set) == CHOOSE m \in set : \A other \in set : m <= other

\* parse_resume from its entry to its return, its raise or its await of
\* complete_json; the cache keeps the insertion order of the dict
ParseResume(file_bytes, file_name) ==
    /\ Len(parse_calls) < MaxCalls
    /\ parse_calls' = Append(parse_calls,
          IF CacheHits(md5_hash(file_bytes)) # {}
          THEN [file_bytes |-> file_bytes, file_name |-> file_name, pc |-> "returned",
                result |-> Some(resume_cache[Min(CacheHits(md5_hash(file_bytes)))])]
          ELSE IF ~SupportedType(file_name) \/ ~MeaningfulText(file_bytes)
               THEN [file_bytes |-> file_bytes, file_name |-> file_name,
                     pc |-> "raised", result |-> None]
               ELSE [file_bytes |-> file_bytes, file_name |-> file_name,
                     pc |-> "awaiting", result |-> None])
    /\ UNCHANGED <<jd_data, resume_cache>>
    /\ UNCHANGED <<scorer_vars, helper_vars, thread_vars>>

\* the n-th call resumes after await complete_json(...): the call raises, or
\* the record is built and stored under its new id
ParseResumeResumes(n, answered) ==
    /\ n \in 1..Len(parse_calls)
    /\ parse_calls[n].pc = "awaiting"
    /\ IF answered
       THEN \E parsed \in {build_parsed_resume(n, parse_calls[n].file_bytes,
                                               parse_calls[n].file_name)} :
               /\ resume_cache' = Append(resume_cache, parsed)
               /\ parse_calls' = [parse_calls EXCEPT ![n].pc = "returned",
                                                     ![n].result = Some(parsed)]
       ELSE /\ parse_calls' = [parse_calls EXCEPT ![n].pc = "raised"]
            /\ UNCHANGED resume_cache
    /\ UNCHANGED jd_data
    /\ UNCHANGED <<scorer_vars, helper_vars, thread_vars>>

\* clear_cached_resumes (DELETE /cache)
ClearCachedResumes ==
    /\ resume_cache # EmptyDict
    /\ resume_cache' = EmptyDict
    /\ UNCHANGED <<jd_data, parse_calls>>
    /\ UNCHANGED <<scorer_vars, helper_vars, thread_vars>>

\* list(_resume_cache.values())
list_cached_resumes == resume_cache

\* rank_resumes_endpoint: do_rank(jd, list_cached_resumes())
RankResumesEndpoint ==
    /\ list_cached_resumes # <<>>
    /\ IsNone(raised)
    /\ resumes' = list_cached_resumes
    /\ \E tables \in {TablesAfter(\E i \in 1..Len(resumes') :
                                     Normalizes(jd, resumes'[i]))} :
        /\ canonical_to_aliases' = tables.c2a
        /\ alias_to_canonical' = tables.a2c
    /\ raised' = RaisesAny(alias_to_canonical'[1], jd, resumes', current_year)
    /\ IF IsNone(raised')
       THEN \E scored \in ScoreAll(alias_to_canonical'[1], jd, resumes', oracle,
                                   current_year) :
               /\ scores' = Some(scored)
               /\ ranking' = Some(RankingResponse(jd, scored))
       ELSE UNCHANGED <<scores, ranking>>
    /\ UNCHANGED <<synonym_file, jd, oracle, current_year, report, factors>>
    /\ UNCHANGED <<helper_vars, thread_vars, store_vars>>

InitCache ==
    /\ synonym_file \in {f \in SynonymFiles : f # None}
    /\ canonical_to_aliases = None
    /\ alias_to_canonical = None
    /\ jd \in RankJobs
    /\ resumes = <<>>
    /\ oracle = [title |-> <<None, None, None>>, experience |-> None]
    /\ current_year = 2026
    /\ factors = None
    /\ report = None
    /\ scores = None
    /\ ranking = None
    /\ raised = None
    /\ NoHelperCalls
    /\ NoThreads
    /\ jd_data = None
    /\ resume_cache = EmptyDict
    /\ parse_calls = <<>>

NextCache ==
    \/ \E file_bytes \in FileBytes, file_name \in FileNames :
          ParseResume(file_bytes, file_name)
    \/ \E n \in 1..MaxCalls, answered \in BOOLEAN : ParseResumeResumes(n, answered)
    \/ ClearCachedResumes
    \/ RankResumesEndpoint

SpecCache == InitCache /\ [][NextCache]_vars

----------------------------------------------------------------------------
(* properties of score_resume and rank_resumes *)

\* a report of score_resume(jd, resumes[1]) exists
Scored == ~IsNone(report)

\* a ranking of rank_resumes(jd, resumes) exists
Ranked == ~IsNone(ranking)

\* the indices of the required skills that either matching path accepts
MatchedRequired ==
    { i \in 1..Len(jd.required_skills) :
        \/ TruthyStr(find_matching_skill(alias_to_canonical[1],
                                         jd.required_skills[i], resumes[1].skills))
        \/ skill_in_text(alias_to_canonical[1], jd.required_skills[i], resumes[1]) }

\* the entries of list at the indices of keep, in list order
RECURSIVE Pick(_, _, _)
Pick(list, keep, i) ==
    IF i > Len(list) THEN <<>>
    ELSE (IF i \in keep THEN <<list[i]>> ELSE <<>>) \o Pick(list, keep, i + 1)

\* C1: for a non-empty required-skills list, the required-skills factor of
\* score_resume is exactly 100 * matched / required (the breakdown carries it
\* to one decimal), where a required skill is matched iff the normalizer
\* matches it in the resume's skills list or the full-text fallback finds it;
\* required [Python, Kubernetes] against skills [Python] and a text without
\* Kubernetes gives 50.0, missing [Kubernetes] and one alert of severity warning
C1_RequiredSkillsPct ==
    (Scored /\ jd.required_skills # <<>>) =>
        /\ factors[1].required =
              Rat(100 * Cardinality(MatchedRequired), Len(jd.required_skills))
        /\ report[1].breakdown.required_skills_pct =
              Round1(Rat(100 * Cardinality(MatchedRequired), Len(jd.required_skills)))
        /\ report[1].matched_required_skills =
              Pick(jd.required_skills, MatchedRequired, 1)
        /\ report[1].missing_required_skills =
              Pick(jd.required_skills,
                   (1..Len(jd.required_skills)) \ MatchedRequired, 1)
        /\ ( /\ jd.required_skills = <<S_Python, S_Kubernetes>>
             /\ resumes[1].skills = <<S_Python>>
             /\ ~Contains(Lower(S_Kubernetes), FullText(resumes[1])) )
           => /\ report[1].breakdown.required_skills_pct = 500
              /\ report[1].missing_required_skills = <<S_Kubernetes>>
              /\ Len(report[1].knockout_alerts) = 1
              /\ report[1].knockout_alerts[1].severity = "warning"

\* a required skill found only by the full-text fallback, one of three
C1_Witness ==
    /\ Scored
    /\ Len(jd.required_skills) = 3
    /\ resumes[1].skills = <<S_golang, S_kube>>
    /\ report[1].matched_required_skills = <<S_Python>>
    /\ report[1].breakdown.required_skills_pct = 333

\* C2: with an empty required-skills list score_resume reports
\* required_skills_pct = 100.0, and with an empty preferred-skills list it
\* reports preferred_skills_pct = 100.0
C2_EmptyListIs100 ==
    Scored =>
        /\ jd.required_skills = <<>> =>
              report[1].breakdown.required_skills_pct = 1000
        /\ jd.preferred_skills = <<>> =>
              report[1].breakdown.preferred_skills_pct = 1000

\* C3: a resume with zero experience entries gets a title-alignment factor of
\* exactly 20.0 and an experience-relevance factor of exactly 0.0, for every
\* job and every answer of the similarity oracle
C3_NoExperience ==
    (Scored /\ resumes[1].experience = <<>>) =>
        /\ factors[1].title = RInt(20)
        /\ factors[1].experience = RInt(0)
        /\ report[1].breakdown.title_similarity_pct = 200
        /\ report[1].breakdown.experience_relevance_pct = 0

\* no experience, a tagline the oracle rates 1.0, a job with title words
C3_Witness ==
    /\ Scored
    /\ resumes[1].experience = <<>>
    /\ resumes[1].summary = Some(S_walk)
    /\ oracle.experience = Some(RInt(1))
    /\ jd.job_title = S_PythonEngineer
    /\ report[1].breakdown.title_similarity_pct = 200

\* C4: when the job's required_experience_years is None the years-fit factor
\* is exactly 70.0, whatever the resume's experience entries and dates are
C4_NoRequiredYears ==
    (Scored /\ IsNone(jd.required_experience_years)) =>
        /\ factors[1].years = RInt(70)
        /\ report[1].breakdown.years_experience_fit_pct = 700

\* no stated minimum, a resume whose dates give six years
C4_Witness ==
    /\ Scored
    /\ IsNone(jd.required_experience_years)
    /\ ~IsNone(estimate_years(resumes[1], current_year))
    /\ report[1].breakdown.years_experience_fit_pct = 700

\* the sum of the six weights
WeightSum ==
    RAdd(RAdd(RAdd(WEIGHTS.required_skills, WEIGHTS.preferred_skills),
              RAdd(WEIGHTS.title_alignment, WEIGHTS.experience_relevance)),
         RAdd(WEIGHTS.years_experience, WEIGHTS.education))

InPercentRange(tenths) == tenths \in 0..1000

\* C5: each of the six breakdown percentages of score_resume lies in
\* [0, 100], the six weights sum to 1.0, and the overall score lies in [0, 100]
C5_ScoresInRange ==
    Scored =>
        /\ \A k \in DOMAIN report[1].breakdown :
              InPercentRange(report[1].breakdown[k])
        /\ \A k \in DOMAIN factors[1] :
              RLe(RInt(0), factors[1][k]) /\ RLe(factors[1][k], RInt(100))
        /\ WeightSum = RInt(1)
        /\ InPercentRange(report[1].overall_score)

\* a report with one factor at 100 and another at 0
C5_Witness ==
    /\ Scored
    /\ report[1].breakdown.title_similarity_pct = 1000
    /\ report[1].breakdown.preferred_skills_pct = 0
    /\ report[1].overall_score > 500

\* C6: rank_resumes returns one scored entry per input resume, ordered
\* non-increasing by overall score, with top_resume_id the first entry's
\* resume id; for an empty list the ranking and the top id are empty
C6_RankingSorted ==
    Ranked =>
        /\ Len(ranking[1].rankings) = Len(resumes)
        /\ \A i \in 1..Len(resumes) :
              Cardinality({ k \in 1..Len(ranking[1].rankings) :
                  ranking[1].rankings[k].resume_id = resumes[i].id }) = 1
        /\ \A k \in 1..(Len(ranking[1].rankings) - 1) :
              ranking[1].rankings[k].overall_score
                  >= ranking[1].rankings[k + 1].overall_score
        /\ resumes # <<>> =>
              ranking[1].top_resume_id = ranking[1].rankings[1].resume_id
        /\ resumes = <<>> =>
              ranking[1].rankings = <<>> /\ ranking[1].top_resume_id = ""
        /\ ranking[1].jd_id = jd.id

\* the better resume came second in the input and is ranked first
C6_Witness ==
    /\ Ranked
    /\ Len(resumes) = 2
    /\ ranking[1].rankings[1].resume_id = resumes[2].id
    /\ ranking[1].rankings[1].overall_score > ranking[1].rankings[2].overall_score

\* the position of the resume with this id in the ranking
PlaceOf(id) ==
    CHOOSE k \in 1..Len(ranking[1].rankings) :
        ranking[1].rankings[k].resume_id = id

\* C7: rank_resumes is stable: two resumes with equal overall scores keep
\* their input order in the ranking, so among tied top scores the top pick
\* is the one that came first in the input
C7_RankingStable ==
    Ranked =>
        /\ \A i, j \in 1..Len(scores[1]) :
              (i < j /\ scores[1][i].overall_score = scores[1][j].overall_score)
                  => PlaceOf(scores[1][i].resume_id) < PlaceOf(scores[1][j].resume_id)
        /\ \A i \in 1..Len(scores[1]) :
              (\A j \in 1..Len(scores[1]) :
                  /\ scores[1][j].overall_score <= scores[1][i].overall_score
                  /\ j < i => scores[1][j].overall_score < scores[1][i].overall_score)
                  => ranking[1].top_resume_id = scores[1][i].resume_id

\* two resumes of equal score, ranked in their input order r2, r1
C7_Witness ==
    /\ Ranked
    /\ Len(resumes) = 2
    /\ resumes[1].id = "r2" /\ resumes[2].id = "r1"
    /\ scores[1][1].overall_score = scores[1][2].overall_score
    /\ ranking[1].top_resume_id = "r2"

C9_AlertPerMissingSkill ==
    Scored =>
        /\ Len(report[1].knockout_alerts) = Len(report[1].missing_required_skills)
        /\ \A i \in 1..Len(report[1].missing_required_skills) :
              /\ report[1].knockout_alerts[i].skill =
                    report[1].missing_required_skills[i]
              /\ report[1].knockout_alerts[i].message =
                    MsgPrefix \o report[1].missing_required_skills[i] \o MsgSuffix
        /\ report[1].missing_required_skills = <<>> =>
              report[1].knockout_alerts = <<>>

\* two different missing skills, one alert for each in order
C9_Witness ==
    /\ Scored
    /\ report[1].missing_required_skills = <<S_Docker, S_Kubernetes>>
    /\ Len(report[1].knockout_alerts) = 2
    /\ report[1].knockout_alerts[2].skill = S_Kubernetes

\* C10: a required skill of at most 3 characters that the resume's skills
\* list does not match counts as matched only when it occurs in the resume
\* text as a whole word ("Go" is not matched by "I am going for a walk")
C10_ShortSkillWholeWord ==
    Scored =>
        \A i \in 1..Len(jd.required_skills) :
            ( /\ Len(jd.required_skills[i]) <= 3
              /\ ~TruthyStr(find_matching_skill(alias_to_canonical[1],
                                jd.required_skills[i], resumes[1].skills))
              /\ \E k \in 1..Len(report[1].matched_required_skills) :
                    report[1].matched_required_skills[k] = jd.required_skills[i] )
            => \/ SearchWholeWord(Lower(jd.required_skills[i]), FullText(resumes[1]))
               \/ SearchWholeWord(normalize_skill(alias_to_canonical[1],
                                                  jd.required_skills[i]),
                                  FullText(resumes[1]))

\* the similarity oracle reports unavailable at every call
OracleUnavailable ==
    /\ \A i \in 1..Len(oracle.title) : IsNone(oracle.title[i])
    /\ IsNone(oracle.experience)

\* every field of a report is there and every percentage is a number
CompleteReport(r) ==
    /\ DOMAIN r = {"resume_id", "resume_name", "file_name", "overall_score",
                   "breakdown", "knockout_alerts", "matched_required_skills",
                   "missing_required_skills", "matched_preferred_skills"}
    /\ r.overall_score \in Int
    /\ \A k \in DOMAIN r.breakdown : r.breakdown[k] \in Int

\* C11: when the similarity oracle is unavailable at every call, score_resume
\* raises nothing and returns a complete report whose title-alignment factor
\* is the keyword-overlap sub-score and whose experience-relevance factor is
\* the keyword-coverage sub-score (where the factor computes a sub-score)
C11_KeywordFallback ==
    OracleUnavailable =>
        /\ IsNone(raised)
        /\ Scored =>
            /\ CompleteReport(report[1])
            /\ ( /\ resumes[1].experience # <<>>
                 /\ extract_title_words(alias_to_canonical[1], jd.job_title) # {} )
               => factors[1].title =
                     TitleKeywordScore(alias_to_canonical[1],
                        extract_title_words(alias_to_canonical[1], jd.job_title),
                        resumes[1])
            /\ (resumes[1].experience # <<>> /\ JdKeywords(jd) # {})
               => factors[1].experience =
                     Rat(100 * Cardinality({ kw \in JdKeywords(jd) :
                                               Contains(kw, ExpText(resumes[1])) }),
                         Cardinality(JdKeywords(jd)))

\* oracle unavailable, a title with words, a keyword found in the experience
C11_Witness ==
    /\ OracleUnavailable
    /\ Scored
    /\ resumes[1].experience # <<>>
    /\ jd.job_title = S_PythonEngineer
    /\ JdKeywords(jd) # {}
    /\ report[1].breakdown.title_similarity_pct = 1000
    /\ report[1].breakdown.experience_relevance_pct > 0

\* C12: score_resume is total: whatever is empty or unparsable in the job or
\* the resume, the call raises nothing and returns a complete report
C12_Total ==
    /\ IsNone(raised)
    /\ Scored => CompleteReport(report[1])
    /\ Ranked => \A k \in 1..Len(ranking[1].rankings) :
                    CompleteReport(ranking[1].rankings[k])

\* nothing required or preferred, no keywords, and a resume with no content
C12_Witness ==
    /\ Scored
    /\ jd.required_skills = <<>> /\ jd.preferred_skills = <<>>
    /\ JdKeywords(jd) = {}
    /\ resumes[1].skills = <<>> /\ resumes[1].experience = <<>>
    /\ resumes[1].education = <<>>
    /\ CompleteReport(report[1])

----------------------------------------------------------------------------
(* properties of the duration estimators and of the years-fit factor *)

Today == <<current_year, current_month>>

\* the dates of the entries of resumes[1]
EntryDates == [i \in 1..Len(resumes[1].experience) |-> resumes[1].experience[i].dates]

\* the entries whose dates _parse_date_range_years parses
YearParsed ==
    { i \in DOMAIN EntryDates :
        ~IsNone(parse_date_range_years(EntryDates[i], current_year)) }

\* the entries whose start and end _parse_month_year parses
MonthParsed ==
    { i \in DOMAIN EntryDates : ~IsNone(ParsedRange(EntryDates[i], Today)) }

\* resumes[1] with only the experience entries at the indices of keep
WithEntries(keep) ==
    [resumes[1] EXCEPT !.experience = Pick(resumes[1].experience, keep, 1)]

\* C13: the estimate that the years-fit factor consumes (_estimate_years)
\* agrees with the month-based estimate (_calculate_experience_years) on every
\* resume; one entry dated "Jan 2020 - Mar 2022" is estimated as 2.2 years
C13_EstimatorsAgree ==
    (~IsNone(estimate) /\ ~IsNone(experience_years)) =>
        /\ IF IsNone(estimate[1])
           THEN experience_years[1] = RInt(0)
           ELSE estimate[1][1] = experience_years[1]
        /\ EntryDates = <<S_JanMar>> => estimate[1] = Some(Rat(22, 10))

\* C14 as stated: for every current date the month-based estimator returns
\* exactly current_year - 2020 for the single entry "2020 - Present"
C14_WholeYearsSince2020 ==
    (~IsNone(experience_years) /\ EntryDates = <<S_Since2020>>) =>
        experience_years[1] = RInt(current_year - 2020)

\* C14: for the single entry "2020 - Present" the month-based estimator
\* returns the months from January 2020 to the current month, divided by 12
\* and rounded to one decimal, which is current_year - 2020 when the current
\* month is January; the year-based estimator returns current_year - 2020
\* (0.5 in 2020) in every month
C14_MonthsSince2020 ==
    EntryDates = <<S_Since2020>> =>
        /\ ~IsNone(experience_years) =>
            /\ experience_years[1] =
                  Rat(Round1(Rat(12 * (current_year - 2020) + current_month - 1, 12)),
                      10)
            /\ current_month = 1 => experience_years[1] = RInt(current_year - 2020)
        /\ ~IsNone(estimate) =>
              estimate[1] = Some(IF current_year > 2020
                                 THEN RInt(current_year - 2020) ELSE Rat(1, 2))

\* "2020 - Present" in November 2026: 6.8 years by months, 6 by years
C14_Witness ==
    /\ EntryDates = <<S_Since2020>>
    /\ Today = <<2026, 11>>
    /\ experience_years = Some(Rat(68, 10))
    /\ estimate = Some(Some(RInt(6)))

\* C15: the duration estimate is none only when every experience entry failed
\* to parse; when at least one entry parsed it is a number, and that number is
\* 0.0 when all parsed entries span zero or negative time
C15_NoneOnlyIfNothingParsed ==
    /\ ~IsNone(estimate) =>
        /\ IsNone(estimate[1]) => YearParsed = {}
        /\ YearParsed # {} => ~IsNone(estimate[1])
        /\ ( /\ YearParsed # {}
             /\ \A i \in YearParsed :
                  /\ Len(FindYears(EntryDates[i], 0)) >= 2
                  /\ FindYears(EntryDates[i], 0)[Len(FindYears(EntryDates[i], 0))]
                        <= FindYears(EntryDates[i], 0)[1] )
           => estimate[1] = Some(RInt(0))
    /\ ( /\ ~IsNone(experience_years)
         /\ MonthParsed # {}
         /\ \A i \in MonthParsed :
               MonthsBetween(ParsedRange(EntryDates[i], Today)[1]) <= 0 )
       => experience_years[1] = RInt(0)

C17_YearsFitFormula ==
    (~IsNone(years_pct) /\ ~IsNone(jd.required_experience_years)) =>
        \A r \in {jd.required_experience_years[1]} :
        \A e \in {estimate_years(resumes[1], current_year)} :
            /\ IsNone(e) => years_pct[1] = RInt(50)
            /\ ~IsNone(e) =>
                /\ RLe(RInt(r), e[1]) => years_pct[1] = RInt(100)
                /\ (RLe(Rat(7 * r, 10), e[1]) /\ RLt(e[1], RInt(r)))
                   => years_pct[1] = RMul(RMul(e[1], Rat(1, r)), RInt(100))
                /\ RLt(e[1], Rat(7 * r, 10))
                   => years_pct[1] = RMax(RMul(RMul(e[1], Rat(1, r)), RInt(80)),
                                          RInt(10))
                /\ RLe(RInt(10), years_pct[1])

\* half a year against a minimum of ten: 4.0 is raised to the floor of 10.0
C17_Witness ==
    /\ jd.required_experience_years = Some(10)
    /\ EntryDates = <<S_MarJan>>
    /\ years_pct = Some(RInt(10))

----------------------------------------------------------------------------
(* properties of the education factor *)

\* the lexicon terms of one degree level
LexiconTerms(level) ==
    { degree_keywords[k][1] :
        k \in { i \in 1..Len(degree_keywords) : degree_keywords[i][2] = level } }

Mentions(text, level) ==
    \E term \in LexiconTerms(level) : Contains(term, Lower(text))

\* doctorate 100 > master 90 > bachelor 80, 0 when no term of the lexicon occurs
Level(text) ==
    IF Mentions(text, 100) THEN 100
    ELSE IF Mentions(text, 90) THEN 90
    ELSE IF Mentions(text, 80) THEN 80
    ELSE 0

\* the best level among the candidate's education entries
CandidateLevel(education) ==
    IF \E i \in 1..Len(education) : Level(education[i].degree) = 100 THEN 100
    ELSE IF \E i \in 1..Len(education) : Level(education[i].degree) = 90 THEN 90
    ELSE IF \E i \in 1..Len(education) : Level(education[i].degree) = 80 THEN 80
    ELSE 0

EducationTable(requirement, education) ==
    IF requirement = None \/ requirement = Some(<<>>) THEN 70
    ELSE IF education = <<>> THEN 20
    ELSE IF Level(requirement[1]) = 0 THEN 70
    ELSE IF CandidateLevel(education) >= Level(requirement[1]) THEN 100
    ELSE IF CandidateLevel(education) > 0 THEN 60
    ELSE 30

\* C18: the education factor follows the decision table in order: no
\* requirement 70, no education entries 20, a requirement that names no
\* lexicon term 70, then with each side at its highest level found the
\* candidate at or above the requirement 100, a recognised degree below it
\* 60, and no recognised degree 30.
C18_EducationTable ==
    ~IsNone(education_pct) =>
        education_pct[1] = RInt(EducationTable(jd.education, resumes[1].education))

\* two entries of different levels, the better one still below the doctorate
\* that the job asks for
C18_Witness ==
    /\ education_pct = Some(RInt(60))
    /\ jd.education = Some(S_MBAorPhD)
    /\ Len(resumes[1].education) = 2
    /\ resumes[1].education[1].degree = S_BS
    /\ resumes[1].education[2].degree = S_MS

----------------------------------------------------------------------------
(* properties of normalize_skill and find_matching_skill *)

\* the lower-cased, trimmed form of a skill
OwnForm(skill) == Strip(Lower(skill))

\* the canonical names under which the synonym file lists the skill as an alias
Resolutions(file, skill) ==
    IF file = None THEN {}
    ELSE { OwnForm(file[1][i].canonical) :
             i \in { k \in 1..Len(file[1]) :
                       /\ ~(file[1][k].canonical # <<>>
                            /\ Head(file[1][k].canonical) = "_")
                       /\ \E j \in 1..Len(file[1][k].aliases) :
                             OwnForm(file[1][k].aliases[j]) = OwnForm(skill) } }

\* the alias-resolved form: the canonical name of the alias, the own form of
\* a skill that the file does not list or when there is no file
Canonical(file, skill) ==
    IF Resolutions(file, skill) = {} THEN OwnForm(skill)
    ELSE CHOOSE canonical \in Resolutions(file, skill) : TRUE

\* the positions of the candidates that normalize to the form of the target
Hits(file, target, candidate_skills) ==
    { i \in 1..Len(candidate_skills) :
        Canonical(file, candidate_skills[i]) = Canonical(file, target) }

\* C19: normalize_skill returns the lower-cased, trimmed, alias-resolved form,
\* the own lower-cased trimmed form for a skill outside the table or without
\* a loadable file; find_matching_skill returns the first candidate in list
\* order whose normalized form equals that of the target, as the original
\* string, and none when no candidate matches.
C19_NormalizeAndFind ==
    /\ ~IsNone(normalized) =>
          normalized[1] = Canonical(synonym_file, target_skill[1])
    /\ ~IsNone(found) =>
          LET hits == Hits(synonym_file, target_skill[1], candidate_list[1])
          IN  IF hits = {} THEN found[1] = None
              ELSE found[1] =
                     Some(candidate_list[1][CHOOSE i \in hits :
                                               \A other \in hits : i <= other])

\* both candidates are forms of the target; the first one comes back padded
\* as it was given
C19_Witness ==
    /\ target_skill = Some(S_K8s)
    /\ candidate_list = Some(<<S_kube, S_Kubernetes>>)
    /\ normalized = Some(Lower(S_Kubernetes))
    /\ found = Some(Some(S_kube))

----------------------------------------------------------------------------
(* properties of concurrent score_resume calls *)

\* the alias table that _load builds when it runs undisturbed
BuiltTable == Load(synonym_file).a2c

\* the thread stands before the table lookups of a normalize_skill call
Normalizing(t) ==
    /\ threads[1][t].pc \in {"assert", "score"}
    /\ Normalizes(jd, resumes[t])

\* every normalize_skill call finds the fully built table
C20_FullTableObserved ==
    \A t \in ThreadIds :
        Normalizing(t) => alias_to_canonical = Some(BuiltTable)

\* _load runs at most once
C20_BuiltOnce == loads <= 1

\* a finished call has returned a report that the call returns on its own
C20_SameReportAsAlone ==
    \A t \in ThreadIds :
        threads[1][t].pc = "done" =>
            /\ IsNone(threads[1][t].raised)
            /\ ~IsNone(threads[1][t].report)
            /\ \E alone \in score_resume(BuiltTable, jd, resumes[t], oracle,
                                         current_year) :
                  threads[1][t].report[1] = alone.score

\* C20: when score_resume calls interleave, the first lazy build of the
\* synonym table included, every normalize_skill call observes the fully
\* built table, the table is built once, and each call returns the report
\* it returns when it runs alone.
C20_ConcurrentCallsIsolated ==
    /\ C20_FullTableObserved
    /\ C20_BuiltOnce
    /\ C20_SameReportAsAlone

----------------------------------------------------------------------------
(* properties of the category of a job description *)

\* the reports of score_resume for the built record with its category replaced
ReportsUnder(category) ==
    { result.score :
        result \in score_resume(IF IsNone(alias_to_canonical) THEN EmptyDict
                                ELSE alias_to_canonical[1],
                                [jd EXCEPT !.jd_type = category], resumes[1],
                                oracle, current_year) }

\* C21: a category label outside the enumeration is never an error: the
\* record that is built carries the label when it is one of the enumeration
\* and fullstack otherwise, and score_resume returns the same report for job
\* descriptions that differ only in their category.
C21_CategoryNeverRead ==
    /\ jd # None =>
          /\ jd.jd_type \in JDType
          /\ jd_data[1].jd_type # None /\ jd_data[1].jd_type[1] \in JDType
                => jd.jd_type = jd_data[1].jd_type[1]
          /\ jd_data[1].jd_type = None \/ jd_data[1].jd_type[1] \notin JDType
                => jd.jd_type = "fullstack"
    /\ (jd # None /\ Scored) =>
          /\ IsNone(raised)
          /\ \A category \in JDType :
                /\ report[1] \in ReportsUnder(category)
                /\ ReportsUnder(category) = ReportsUnder(jd.jd_type)

\* a label in the spelling of another vocabulary became fullstack and the
\* record was scored
C21_Witness ==
    /\ jd_data[1].jd_type = Some("java-backend")
    /\ jd # None
    /\ jd.jd_type = "fullstack"
    /\ jd.required_skills # <<>>
    /\ Scored

----------------------------------------------------------------------------
(* properties of the title-alignment and experience-relevance factors *)

\* the words of the job title, as _title_similarity extracts them
JdTitleWords == extract_title_words(alias_to_canonical[1], jd.job_title)

\* score_resume has scored a resume with experience against a job whose
\* title has a meaningful word
TitleScored ==
    /\ Scored
    /\ resumes[1].experience # <<>>
    /\ extract_title_words(EmptyDict, jd.job_title) # {}

\* the oracle answers every call of _title_similarity with a number
TitleOracleAvailable ==
    \A i \in 1..Len(CandidateTitles(resumes[1])) : ~IsNone(oracle.title[i])

\* the oracle answers no call of _title_similarity
TitleOracleUnavailable ==
    \A i \in 1..Len(CandidateTitles(resumes[1])) : IsNone(oracle.title[i])

\* C22: whenever the oracle is available, 0.0 included, the title-alignment
\* factor of a resume with experience against a title with a meaningful word
\* is min(100, 0.6 * semantic + 0.4 * keyword) with semantic 100 times the
\* best similarity; the keyword score alone is the factor only when the
\* oracle is unavailable.
C22_BlendWheneverAvailable ==
    TitleScored =>
        /\ TitleOracleAvailable /\ CandidateTitles(resumes[1]) # <<>> =>
              factors[1].title =
                  Blend(BestSim(oracle.title, Len(CandidateTitles(resumes[1]))),
                        Rat(6, 10),
                        TitleKeywordScore(alias_to_canonical[1], JdTitleWords,
                                          resumes[1]),
                        Rat(4, 10))
        /\ TitleOracleUnavailable =>
              factors[1].title =
                  TitleKeywordScore(alias_to_canonical[1], JdTitleWords, resumes[1])

\* the meaningful words of a title, resolved through the synonym table
Words(title) == extract_title_words(alias_to_canonical[1], title)

\* 100 * |J \cap T| / |J|, scaled by percent / 100
Overlap(J, other, percent) ==
    Rat(percent * Cardinality(J \cap other), Cardinality(J))

\* what the experience titles at the given positions and the tagline offer
KeywordOffers(J, resume, positions) ==
    { Overlap(J, Words(resume.experience[i].title), 100) : i \in positions }
    \cup (IF TruthyStr(resume.tagline)
          THEN {Overlap(J, Words(resume.tagline[1]), 80)} ELSE {})

\* min(100, the greatest offer), 0 without offers
KeywordSubScore(J, resume, positions) ==
    LET offers == KeywordOffers(J, resume, positions) \cup {RInt(0)}
        best == CHOOSE x \in offers : \A y \in offers : RLe(y, x)
    IN  RMin(best, RInt(100))

\* C23: for a resume with experience the title factor is 50.0 when the job
\* title has no meaningful word; otherwise its keyword sub-score is min(100,
\* max of 100*|J & T|/|J| over the first two experience titles and of
\* 80*|J & G|/|J| for a tagline), and the entries after the second never
\* change it.
C23_TitleKeywordScore ==
    (Scored /\ resumes[1].experience # <<>>) =>
        IF extract_title_words(EmptyDict, jd.job_title) = {}
        THEN factors[1].title = RInt(50)
        ELSE LET J == Words(jd.job_title)
                 firstTwo == { i \in 1..Len(resumes[1].experience) : i <= 2 }
             IN  /\ TitleKeywordScore(alias_to_canonical[1], J, resumes[1])
                      = KeywordSubScore(J, resumes[1], firstTwo)
                 /\ TitleOracleUnavailable =>
                      factors[1].title = KeywordSubScore(J, resumes[1], firstTwo)
                 /\ TitleKeywordScore(alias_to_canonical[1], J, resumes[1])
                      = TitleKeywordScore(alias_to_canonical[1], J,
                           [resumes[1] EXCEPT
                              !.experience = SubSeq(@, 1, Cardinality(firstTwo))])

\* the third entry alone carries the words of the job title, an alias among
\* them, and the factor stays at what the first two entries offer
C23_Witness ==
    /\ Scored
    /\ TitleOracleUnavailable
    /\ jd.job_title = S_GoEngineer
    /\ Len(resumes[1].experience) = 3
    /\ resumes[1].experience[1].title = S_PythonEngineer
    /\ resumes[1].experience[2].title = <<>>
    /\ resumes[1].experience[3].title = S_GolangEngineer
    /\ resumes[1].tagline = None
    /\ factors[1].title = RInt(50)

\* K: the case-folded union of the keywords to match and of the required and
\* preferred skills
KeywordUnion ==
    { Lower(jd.keywords_to_match[i]) : i \in 1..Len(jd.keywords_to_match) }
    \cup { Lower(jd.required_skills[i]) : i \in 1..Len(jd.required_skills) }
    \cup { Lower(jd.preferred_skills[i]) : i \in 1..Len(jd.preferred_skills) }

\* 100 * |{k in K : k occurs in the experience blob}| / |K|
KeywordCoverage ==
    Rat(100 * Cardinality({ k \in KeywordUnion : Contains(k, ExpText(resumes[1])) }),
        Cardinality(KeywordUnion))

\* score_resume has scored a resume with experience against a job with keywords
ExperienceScored ==
    /\ Scored
    /\ resumes[1].experience # <<>>
    /\ KeywordUnion # {}

\* the oracle has two non-empty texts to compare
TextsToCompare ==
    /\ JdContext(jd) # <<>>
    /\ ExpText(resumes[1]) # <<>>

----------------------------------------------------------------------------
(* properties of the synonym table *)

\* the entries of the synonym file that _load keeps
ListedEntries ==
    { synonym_file[1][k] :
        k \in { i \in 1..Len(synonym_file[1]) :
                  ~(synonym_file[1][i].canonical # <<>>
                    /\ Head(synonym_file[1][i].canonical) = "_") } }

\* normalize_skill on the table as it is loaded
Normalize(skill) == normalize_skill(alias_to_canonical[1], skill)

\* C25: for every synonym table that can be loaded, every canonical term c
\* and every alias a listed under it normalize to c (lower-cased, trimmed),
\* so that c and a match in both directions, and normalizing twice is the
\* same as normalizing once.
C25_Bidirectional ==
    (synonym_file # None /\ ~IsNone(alias_to_canonical)) =>
        \A e \in ListedEntries :
            /\ Normalize(e.canonical) = Strip(Lower(e.canonical))
            /\ \A j \in 1..Len(e.aliases) :
                  /\ Normalize(e.aliases[j]) = Normalize(e.canonical)
                  /\ Normalize(Normalize(e.aliases[j])) = Normalize(e.aliases[j])

----------------------------------------------------------------------------
(* properties of the skill lists of a report *)

\* C26: in every report the matched and the missing required skills
\* partition the positions of the job's required list, each in the job's
\* order, so that their lengths add up to the length of the required list;
\* the matched preferred skills are a sub-list of the preferred list in its
\* order.
C26_SkillListsPartition ==
    Scored =>
        /\ \E keep \in SUBSET (1..Len(jd.required_skills)) :
              /\ report[1].matched_required_skills = Pick(jd.required_skills, keep, 1)
              /\ report[1].missing_required_skills =
                     Pick(jd.required_skills, (1..Len(jd.required_skills)) \ keep, 1)
        /\ Len(report[1].matched_required_skills)
             + Len(report[1].missing_required_skills) = Len(jd.required_skills)
        /\ \E keep \in SUBSET (1..Len(jd.preferred_skills)) :
              report[1].matched_preferred_skills = Pick(jd.preferred_skills, keep, 1)

\* two required skills matched around a missing one, and two preferred
\* skills of which the first alone is matched
C26_Witness ==
    /\ Scored
    /\ Len(jd.required_skills) = 3
    /\ Len(report[1].matched_required_skills) = 2
    /\ report[1].matched_required_skills[1] = jd.required_skills[1]
    /\ report[1].matched_required_skills[2] = jd.required_skills[3]
    /\ report[1].missing_required_skills = <<jd.required_skills[2]>>
    /\ Len(jd.preferred_skills) = 2
    /\ report[1].matched_preferred_skills = <<jd.preferred_skills[1]>>

----------------------------------------------------------------------------
(* monotonicity of the years-fit factor *)

MaxTenths == 120

\* the estimates 0.0, 0.1, ... up to MaxTenths tenths of a year
EstimateGrid == { Rat(k, 10) : k \in 0..MaxTenths }

\* C27: for a fixed minimum r > 0 the years-fit factor does not decrease when
\* the numeric estimate grows, the step at 70% of r included.
C27_YearsFitMonotone ==
    ( /\ ~IsNone(years_pct)
      /\ ~IsNone(jd.required_experience_years)
      /\ jd.required_experience_years[1] > 0 ) =>
        \A mine \in {estimate_years(resumes[1], current_year)} :
            ~IsNone(mine) =>
                \A other \in EstimateGrid :
                  \A theirs \in {YearsScoreOf(jd.required_experience_years[1],
                                              Some(other))} :
                    /\ RLe(mine[1], other) => RLe(years_pct[1], theirs)
                    /\ RLe(other, mine[1]) => RLe(theirs, years_pct[1])

\* an estimate of 2.0 years against 3 required: just below the 70% step,
\* scored on the x80 scale
C27_Witness ==
    /\ years_pct = Some(Rat(160, 3))
    /\ jd.required_experience_years = Some(3)
    /\ estimate_years(resumes[1], current_year) = Some(RInt(2))

----------------------------------------------------------------------------
(* what the similarity oracle can change in a report *)

\* the synonym table of the call, empty when the call never built it
TableOfCall ==
    IF IsNone(alias_to_canonical) THEN EmptyDict ELSE alias_to_canonical[1]

\* the reports of score_resume(jd, resumes[0]) under another oracle
ReportsWith(other_oracle) ==
    { result.score :
        result \in score_resume(TableOfCall, jd, resumes[1], other_oracle,
                                current_year) }

\* the parts of a report outside the title and experience factors and the total
OracleFree(r) ==
    <<r.breakdown.required_skills_pct, r.breakdown.preferred_skills_pct,
      r.breakdown.years_experience_fit_pct, r.breakdown.education_match_pct,
      r.matched_required_skills, r.missing_required_skills,
      r.matched_preferred_skills, r.knockout_alerts>>

\* C28: the oracle touches the title and experience factors only: under any
\* two behaviours of the oracle the required-skills, preferred-skills,
\* years-fit and education percentages, the matched and missing lists and
\* the knockout alerts of the report are the same.
C28_OracleOnlyInTwoFactors ==
    Scored =>
        \A other_oracle \in Oracles :
            \A other \in ReportsWith(other_oracle) :
                OracleFree(other) = OracleFree(report[1])

\* the oracle did change the title and the experience percentage of a report
\* that lists a matched required skill and carries a knockout alert
C28_Witness ==
    /\ Scored
    /\ ~OracleUnavailable
    /\ report[1].knockout_alerts # <<>>
    /\ report[1].matched_required_skills # <<>>
    /\ \E other \in ReportsWith([title |-> <<None, None, None>>, experience |-> None]) :
          /\ other.breakdown.title_similarity_pct
                # report[1].breakdown.title_similarity_pct
          /\ other.breakdown.experience_relevance_pct
                # report[1].breakdown.experience_relevance_pct

\* the skill strings added to a resume: canonical names, aliases of the table,
\* a padded alias, an unknown skill and the empty string
AddedSkills == {S_Python, S_Kubernetes, S_K8s, S_kube, S_golang, S_Docker, <<>>}

\* the resume with one more string in its skills list, after the first i ones
WithSkill(resume, i, added) ==
    [resume EXCEPT !.skills = SubSeq(@, 1, i) \o <<added>> \o SubSeq(@, i + 1, Len(@))]

\* the results of score_resume(jd, resume) for resumes[0] with one skill added
ResultsWithSkill ==
    UNION { score_resume(TableOfCall, jd, WithSkill(resumes[1], i, added),
                         oracle, current_year) :
            added \in AddedSkills, i \in 0..Len(resumes[1].skills) }

\* the four percentages that do not depend on the skills list
OtherFour(r) ==
    <<r.breakdown.title_similarity_pct, r.breakdown.experience_relevance_pct,
      r.breakdown.years_experience_fit_pct, r.breakdown.education_match_pct>>

C30_OneEntryPerHash ==
    /\ \A i, j \in 1..Len(resume_cache) :
          resume_cache[i].file_hash = resume_cache[j].file_hash => i = j
    /\ ~IsNone(ranking) =>
          \A i, j \in 1..Len(resumes) :
              resumes[i].file_hash = resumes[j].file_hash => i = j

====
